---- MODULE Spec2Model ----
(***************************************************************************)
(* mojito-waterfall: the Waterfall profiler of waterfall.common.js.        *)
(*                                                                         *)
(* Strings are sequences of one-character strings, so that the profile key *)
(* regular expression, split, trim and join are computed, not assumed.     *)
(* JavaScript's undefined and NaN are the two sentinels Undefined and NaN; *)
(* every other time value is a natural number.  A missing or empty string  *)
(* (both falsy in JavaScript) is the empty sequence.  A durations map that *)
(* is null is the empty sequence: the code creates {} only right before it *)
(* puts an entry in it.                                                    *)
(***************************************************************************)
EXTENDS Integers, Sequences, FiniteSets, TLC

\* ------------------------------------------------------------ JS values

Undefined == -1000
NaN == -2000

IsNum(x) == x # Undefined /\ x # NaN

\* !x for a time value
Falsy(x) == x = Undefined \/ x = NaN \/ x = 0

\* a || b
OrJS(a, b) == IF Falsy(a) THEN b ELSE a

\* a - b
SubJS(a, b) == IF IsNum(a) /\ IsNum(b) THEN a - b ELSE NaN

\* a + b
AddJS(a, b) == IF IsNum(a) /\ IsNum(b) THEN a + b ELSE NaN

\* Math.min(a, b), Math.max(a, b)
MathMin(a, b) == IF IsNum(a) /\ IsNum(b) THEN (IF a < b THEN a ELSE b) ELSE NaN
MathMax(a, b) == IF IsNum(a) /\ IsNum(b) THEN (IF a > b THEN a ELSE b) ELSE NaN

\* a < b
LessJS(a, b) == IsNum(a) /\ IsNum(b) /\ a < b

\* ------------------------------------------------------------ strings

RECURSIVE TrimLeft(_)
TrimLeft(s) == IF s # <<>> /\ Head(s) = " " THEN TrimLeft(Tail(s)) ELSE s

RECURSIVE TrimRight(_)
TrimRight(s) ==
    IF s # <<>> /\ s[Len(s)] = " " THEN TrimRight(SubSeq(s, 1, Len(s) - 1)) ELSE s

\* String.prototype.trim
Trim(s) == TrimRight(TrimLeft(s))

\* String.prototype.indexOf(c) !== -1
Contains(s, c) == \E i \in 1..Len(s) : s[i] = c

\* String.prototype.split(c), c one character
RECURSIVE SplitFrom(_, _, _)
SplitFrom(s, c, cur) ==
    IF s = <<>> THEN <<cur>>
    ELSE IF Head(s) = c THEN <<cur>> \o SplitFrom(Tail(s), c, <<>>)
    ELSE SplitFrom(Tail(s), c, Append(cur, Head(s)))

Split(s, c) == SplitFrom(s, c, <<>>)

\* Array.prototype.join(c)
RECURSIVE Join(_, _)
Join(parts, c) ==
    IF parts = <<>> THEN <<>>
    ELSE IF Len(parts) = 1 THEN parts[1]
    ELSE parts[1] \o <<c>> \o Join(Tail(parts), c)

\* ------------------------------------------------- PROFILE_KEY_REGEX

\* [^\/:]
SegChar(c) == c # "/" /\ c # ":"

\* the positions [^\/:]+ can end at when it starts after position i
SegEnds(s, i) ==
    { j \in (i + 1)..Len(s) : \A k \in (i + 1)..j : SegChar(s[k]) }

\* one c, then [^\/:]+ , from any position of from
CharThenSeg(s, c, from) ==
    UNION { SegEnds(s, i + 1) : i \in { p \in from : p < Len(s) /\ s[p + 1] = c } }

\* (\/?[^\/:]+) from any position of from
Group1Once(s, from) ==
    UNION { SegEnds(s, i) : i \in from } \cup CharThenSeg(s, "/", from)

\* X+ and X* as the positions reachable by repeating X
RECURSIVE Group1Plus(_, _)
Group1Plus(s, reached) ==
    LET more == reached \cup Group1Once(s, reached)
    IN  IF more = reached THEN reached ELSE Group1Plus(s, more)

RECURSIVE Group2Star(_, _)
Group2Star(s, reached) ==
    LET more == reached \cup CharThenSeg(s, "/", reached)
    IN  IF more = reached THEN reached ELSE Group2Star(s, more)

\* /^(\/?[^\/:]+)+(\/[^\/:]+)*(:[^\/:]+)?$/.test(s)
PROFILE_KEY_REGEX(s) ==
    LET g1 == Group1Plus(s, Group1Once(s, {0}))
        g2 == Group2Star(s, g1)
        g3 == g2 \cup CharThenSeg(s, ":", g2)
    IN  Len(s) \in g3

\* ------------------------------------------------------------ ProfileKey

\* lines 34-40: the trimmed, non-empty parts of key.split('/')
RECURSIVE KeptParts(_)
KeptParts(parts) ==
    IF parts = <<>> THEN <<>>
    ELSE LET p == Trim(Head(parts))
         IN  (IF p # <<>> THEN <<p>> ELSE <<>>) \o KeptParts(Tail(parts))

ProfileKey(key) ==
    LET kept == KeptParts(Split(key, "/"))
        last == kept[Len(kept)]
        parts == Split(last, ":")
        hasDuration == Contains(last, ":")
    IN  [ profiles |-> IF hasDuration
                       THEN SubSeq(kept, 1, Len(kept) - 1) \o <<Trim(parts[1])>>
                       ELSE kept,
          duration |-> IF hasDuration THEN Trim(parts[2]) ELSE <<>>,
          root     |-> key # <<>> /\ key[1] = "/" ]

\* ProfileKey.prototype.toString
KeyToString(pk) ==
    (IF pk.root THEN <<"/">> ELSE <<>>)
    \o Join(pk.profiles, "/")
    \o (IF pk.duration # <<>> THEN <<":">> \o pk.duration ELSE <<>>)

\* ------------------------------------------------------------ Profile

\* the data of a call that passes none (or passes {})
NoData == [type |-> <<>>]

\* the data of an event call that has a time of its own
TimedData == [type |-> <<>>, time |-> 3]

\* the data of a call that declares a type
TypedData == [type |-> <<"T">>]

\* this.data = {} ; Name is set by createRows
EmptyData == [type |-> <<>>, Name |-> <<>>]

\* function Profile(profileKey, root): the chain of one node per segment.
\* Every node of the chain gets a durations map holding an empty entry for the
\* key's duration label (lines 83-86 run for each node; the child is built
\* with duration: profileKey.duration).
RECURSIVE Profile(_, _)
Profile(profiles, duration) ==
    [ id        |-> profiles[1],
      type      |-> profiles[1],
      startTime |-> Undefined,
      endTime   |-> Undefined,
      durations |-> IF duration # <<>>
                    THEN << [type |-> duration, startTime |-> Undefined,
                             endTime |-> Undefined] >>
                    ELSE <<>>,
      duration  |-> duration,
      children  |-> IF Len(profiles) > 1
                    THEN << [id |-> profiles[2],
                             list |-> <<Profile(Tail(profiles), duration)>>] >>
                    ELSE <<>>,
      data      |-> EmptyData,
      closed    |-> FALSE ]

\* this.profile of a node built from a key of depth segments: the last node of
\* the chain (line 75)
RECURSIVE Deepest(_, _)
Deepest(node, depth) ==
    IF depth <= 1 THEN node ELSE Deepest(node.children[1].list[1], depth - 1)

RECURSIVE ReplaceDeepest(_, _, _)
ReplaceDeepest(node, depth, new) ==
    IF depth <= 1 THEN new
    ELSE [node EXCEPT !.children[1].list[1] = ReplaceDeepest(@, depth - 1, new)]

\* Y.mix(profile.data, setData.data, true, null, 0, true): the supplier's
\* properties overwrite the receiver's
MixData(data, supplied) ==
    IF supplied.type # <<>> THEN [data EXCEPT !.type = supplied.type] ELSE data

\* profile.duration: the entry of the durations map made for the key's label
RECURSIVE SetDuration(_, _, _)
SetDuration(durations, label, setData) ==
    IF durations = <<>> THEN <<>>
    ELSE << IF Head(durations).type = label
            THEN [ Head(durations) EXCEPT
                     !.startTime = OrJS(@, setData.startTime),
                     !.endTime = OrJS(@, setData.endTime) ]
            ELSE Head(durations) >>
         \o SetDuration(Tail(durations), label, setData)

\* lines 98-106, on this.profile
SetTimes(profile, setData) ==
    IF profile.duration # <<>>
    THEN [profile EXCEPT !.durations = SetDuration(@, profile.duration, setData),
                         !.data = MixData(@, setData.data)]
    ELSE [profile EXCEPT !.startTime = OrJS(@, setData.startTime),
                         !.endTime = OrJS(@, setData.endTime),
                         !.data = MixData(@, setData.data)]

\* Profile.prototype.set, on the node built from a key of depth segments:
\* the times and data go to this.profile, the type to this (line 108)
SetType(node, depth, profile) ==
    [ReplaceDeepest(node, depth, profile) EXCEPT
        !.type = IF profile.data.type # <<>> THEN profile.data.type ELSE @]

ProfileSet(node, depth, setData) ==
    SetType(node, depth, SetTimes(Deepest(node, depth), setData))

\* variant of MixDurations: with overwrite, the supplier's entry replaces the
\* entry the receiver has for the label
RECURSIVE OverwriteDurations(_, _)
OverwriteDurations(receiver, supplier) ==
    IF supplier = <<>> THEN receiver
    ELSE OverwriteDurations(
            IF \E i \in 1..Len(receiver) : receiver[i].type = Head(supplier).type
            THEN [ i \in 1..Len(receiver) |->
                     IF receiver[i].type = Head(supplier).type
                     THEN Head(supplier) ELSE receiver[i] ]
            ELSE Append(receiver, Head(supplier)),
            Tail(supplier))

\* Y.mix(receiver, supplier) on two durations maps: without overwrite, a label
\* the receiver already has keeps the receiver's entry
RECURSIVE MixDurations(_, _)
MixDurations(receiver, supplier) ==
    IF supplier = <<>> THEN receiver
    ELSE MixDurations(
            IF \E i \in 1..Len(receiver) : receiver[i].type = Head(supplier).type
            THEN receiver
            ELSE Append(receiver, Head(supplier)),
            Tail(supplier))

ChildIndex(children, id) ==
    IF \E i \in 1..Len(children) : children[i].id = id
    THEN CHOOSE i \in 1..Len(children) : children[i].id = id
    ELSE 0

\* every profile of every child array, in the order Y.Object.each / Y.Array.each
\* visit them
RECURSIVE AllChildren(_)
AllChildren(children) ==
    IF children = <<>> THEN <<>>
    ELSE Head(children).list \o AllChildren(Tail(children))

\* lines 153-158
MergeIntoLast(lastProfile, profile) ==
    [lastProfile EXCEPT !.startTime = profile.startTime,
                        !.endTime = profile.endTime,
                        !.type = IF profile.data.type # <<>>
                                 THEN profile.data.type ELSE @,
                        !.data = MixData(@, profile.data)]

\* Profile.prototype.add(profile, parentProfile): parentProfile after the call
RECURSIVE ProfileAdd(_, _)
RECURSIVE AddEach(_, _)
RECURSIVE AddToLast(_, _, _, _)

\* lines 117-137; ci is the place of children[profile.id], 0 when there is none
ProfileAdd(parentProfile, profile) ==
    IF profile.id = <<>>
    THEN [parentProfile EXCEPT !.durations = MixDurations(@, profile.durations)]
    ELSE IF ChildIndex(parentProfile.children, profile.id) = 0
    THEN [parentProfile EXCEPT
            !.children = Append(@, [id |-> profile.id, list |-> <<profile>>])]
    ELSE AddToLast(parentProfile, profile,
                   ChildIndex(parentProfile.children, profile.id),
                   Len(parentProfile.children[
                        ChildIndex(parentProfile.children, profile.id)].list))

\* variant of AddToLast: a profile is always merged into the last one of its id
AddOverLast(parentProfile, profile, ci, n) ==
    [parentProfile EXCEPT !.children[ci].list[n] = MergeIntoLast(@, profile)]

\* variant of AddToLast: a profile is always appended to those of its id
AddAsSibling(parentProfile, profile, ci, n) ==
    [parentProfile EXCEPT !.children[ci].list = Append(@, profile)]

\* lines 139-162; lastProfile is the n-th, the last, profile of children[ci]
AddToLast(parentProfile, profile, ci, n) ==
    IF profile.durations # <<>>
    THEN [parentProfile EXCEPT !.children[ci].list[n].durations =
                                    MixDurations(@, profile.durations)]
    ELSE IF parentProfile.children[ci].list[n].startTime = Undefined
            /\ profile.children # <<>>
    THEN [parentProfile EXCEPT !.children[ci].list[n] =
                                    AddEach(@, AllChildren(profile.children))]
    ELSE IF parentProfile.children[ci].list[n].startTime = Undefined
    THEN [parentProfile EXCEPT !.children[ci].list[n] =
                                    MergeIntoLast(@, profile)]
    ELSE [parentProfile EXCEPT !.children[ci].list = Append(@, profile)]

\* lines 148-152: self.add(childProfile, lastProfile) for each child in turn
AddEach(lastProfile, childProfiles) ==
    IF childProfiles = <<>> THEN lastProfile
    ELSE AddEach(ProfileAdd(lastProfile, Head(childProfiles)), Tail(childProfiles))

\* parent.add(profile) with parentProfile defaulted to parent.profile (line 123)
AddToParent(parent, depth, profile) ==
    ReplaceDeepest(parent, depth, ProfileAdd(Deepest(parent, depth), profile))

\* ------------------------------------------------------------ _processCalls

\* this._error(message, profileKeyStr): what Y.log is given
ErrorEntry(message, key) == [message |-> message, key |-> key]

RootKey == [profiles |-> << <<"r", "o", "o", "t">> >>, duration |-> <<>>, root |-> FALSE]

\* lines 638-644: the stack holding only the root profile
InitialReconciler ==
    [ stack  |-> << [profile |-> Profile(RootKey.profiles, <<>>), profileKey |-> RootKey] >>,
      events |-> <<>>,
      absoluteStartTime |-> Undefined,
      errors |-> {} ]

\* line 651
AbsoluteStart(current, args) ==
    IF current # Undefined THEN current
    ELSE IF args.type \in {"start", "event"} THEN args.time ELSE Undefined

\* lines 654-657: Y.mix(args.data || {}, {type: args.name, time: args.time});
\* without overwrite, a type or a time the data already has is kept
EventEntry(args) ==
    [ type |-> IF args.data.type # <<>> THEN args.data.type ELSE args.name,
      time |-> IF "time" \in DOMAIN args.data THEN args.data.time ELSE args.time ]

\* lines 662: the trimmed key is empty or fails the regular expression
InvalidKey(rawKey) ==
    LET key == Trim(rawKey) IN key = <<>> \/ ~PROFILE_KEY_REGEX(key)

\* lines 670-676
ProcessStart(st, pk, args) ==
    [st EXCEPT !.stack = Append(@,
        [ profile |-> ProfileSet(Profile(pk.profiles, pk.duration), Len(pk.profiles),
                                 [startTime |-> args.time, endTime |-> Undefined,
                                  data |-> args.data]),
          profileKey |-> pk ])]

\* lines 679-684: the index of the topmost open profile with the same key, or 1
\* (the root's place, JavaScript's index 0) when there is none
SameKey(stack, pk) ==
    { i \in 2..Len(stack) : KeyToString(stack[i].profileKey) = KeyToString(pk) }

\* variant of Highest: the lowest place, the profile started first
Lowest(places) == IF places = {} THEN 1 ELSE CHOOSE i \in places : \A j \in places : i <= j

Highest(places) == IF places = {} THEN 1 ELSE CHOOSE i \in places : \A j \in places : j <= i

\* variant of FindOpen: an end that matches no open profile takes the top one
FindOpenOrTop(stack, pk) ==
    IF SameKey(stack, pk) = {} THEN Len(stack) ELSE Highest(SameKey(stack, pk))

FindOpen(stack, pk) == Highest(SameKey(stack, pk))

\* stack.splice(i, 1)
RemoveAt(stack, i) == SubSeq(stack, 1, i - 1) \o SubSeq(stack, i + 1, Len(stack))

\* variant of ParentIndex: a rooted key is treated like any other
ParentBelow(pk, i) == i - 1

\* variant of ParentIndex: every closed profile is added to the root
ParentRoot(pk, i) == 1

\* lines 696-700: the place in the stack of the profile the closed one is added to
ParentIndex(pk, i) == IF pk.root THEN 1 ELSE i - 1

\* variant of Closed: the end time and data are not set
ClosedUntimed(found, args) == [found.profile EXCEPT !.closed = TRUE]

\* lines 687-692: the profile found, with its end time and data set, closed
Closed(found, args) ==
    [ ProfileSet(found.profile, Len(found.profileKey.profiles),
                 [startTime |-> Undefined, endTime |-> args.time, data |-> args.data])
      EXCEPT !.closed = TRUE ]

\* line 703: the stack with profile added to the parent at place p
AddAt(stack, p, profile) ==
    [stack EXCEPT ![p].profile =
        AddToParent(@, Len(stack[p].profileKey.profiles), profile)]

\* lines 686-706, i the place FindOpen gives
EndAt(st, pk, args, i) ==
    IF i = 1
    THEN [st EXCEPT !.errors = @ \cup
              {ErrorEntry("Start was never called.", KeyToString(pk))}]
    ELSE [st EXCEPT !.stack =
              AddAt(RemoveAt(st.stack, i), ParentIndex(pk, i), Closed(st.stack[i], args))]

\* lines 678-707
ProcessEnd(st, pk, args) == EndAt(st, pk, args, FindOpen(st.stack, pk))

\* the function given to Y.Array.each(this._calls, ...), lines 646-708
Reconcile(timed, args) ==
    IF args.type = "event"
    THEN [timed EXCEPT !.events = Append(@, EventEntry(args))]
    ELSE IF InvalidKey(args.profileKey)
    THEN [timed EXCEPT !.errors = @ \cup
              {ErrorEntry("Invalid profile.", Trim(args.profileKey))}]
    ELSE IF args.type = "start"
    THEN ProcessStart(timed, ProfileKey(Trim(args.profileKey)), args)
    ELSE ProcessEnd(timed, ProfileKey(Trim(args.profileKey)), args)

ProcessCall(st, args) ==
    Reconcile([st EXCEPT !.absoluteStartTime = AbsoluteStart(@, args)], args)

\* the reconciler after the first n calls of the log
RECURSIVE ProcessPrefix(_, _)
ProcessPrefix(calls, n) ==
    IF n = 0 THEN InitialReconciler
    ELSE ProcessCall(ProcessPrefix(calls, n - 1), calls[n])

\* lines 720-726: the closed children of an unterminated profile go to the root
RECURSIVE SalvageClosed(_, _)
SalvageClosed(rootProfile, childProfiles) ==
    IF childProfiles = <<>> THEN rootProfile
    ELSE SalvageClosed(
            IF Head(childProfiles).closed
            THEN ProfileAdd(rootProfile, Head(childProfiles))
            ELSE rootProfile,
            Tail(childProfiles))

\* lines 711-728: the root profile after the profiles left on the stack from
\* place i on have been visited
RECURSIVE Sweep(_, _, _)
Sweep(rootProfile, stack, i) ==
    IF i > Len(stack) THEN rootProfile
    ELSE Sweep(
            IF ~stack[i].profile.closed
            THEN SalvageClosed(rootProfile, AllChildren(stack[i].profile.children))
            ELSE rootProfile,
            stack, i + 1)

SweepErrors(stack) ==
    { ErrorEntry("End was never called.", KeyToString(stack[i].profileKey)) :
        i \in { j \in 2..Len(stack) : ~stack[j].profile.closed } }

\* line 661: the key of every start and end call is replaced by its trimmed form
RECURSIVE TrimmedCalls(_)
TrimmedCalls(log) ==
    IF log = <<>> THEN <<>>
    ELSE << IF Head(log).type = "event" THEN Head(log)
            ELSE [Head(log) EXCEPT !.profileKey = Trim(@)] >>
         \o TrimmedCalls(Tail(log))

\* Waterfall.prototype._processCalls on a fresh instance: the root profile, the
\* events, the absolute start time and the errors logged
Swept(st) ==
    [ rootProfile |-> Sweep(st.stack[1].profile, st.stack, 2),
      events |-> st.events,
      absoluteStartTime |-> st.absoluteStartTime,
      errors |-> st.errors \cup SweepErrors(st.stack) ]

ProcessCalls(log) == Swept(ProcessPrefix(log, Len(log)))

\* ------------------------------------------------------------ createRows

\* typeof window === 'object': the browser build, whose times are numbers of
\* milliseconds
isBrowser == TRUE

\* Waterfall.prototype._normalize, browser branch
Normalize(time, absoluteStartTime) ==
    IF Falsy(time) THEN Undefined ELSE SubJS(time, absoluteStartTime)

\* x !== undefined ? Math.min(x, y) : y   (lines 549, 569)
WidenStart(x, y) == IF x # Undefined THEN MathMin(x, y) ELSE y

\* x !== undefined ? Math.max(x, y) : y   (lines 550, 570)
WidenEnd(x, y) == IF x # Undefined THEN MathMax(x, y) ELSE y

\* lines 537-550, one entry of the durations map added to what the loop has
\* so far
DurationRow(acc, type, startTime, endTime) ==
    [ durations |-> Append(acc.durations,
                           [type |-> type, duration |-> SubJS(endTime, startTime)]),
      totalDuration |-> AddJS(acc.totalDuration, SubJS(endTime, startTime)),
      startTime |-> WidenStart(acc.startTime, startTime),
      endTime |-> WidenEnd(acc.endTime, endTime) ]

\* lines 536-551, folded over the durations map: the row's durations, their
\* total, and the profile's widened start and end time
RECURSIVE DurationRows(_, _, _)
DurationRows(durations, abs, acc) ==
    IF durations = <<>> THEN acc
    ELSE DurationRows(Tail(durations), abs,
            DurationRow(acc, Head(durations).type,
                        Normalize(Head(durations).startTime, abs),
                        Normalize(Head(durations).endTime, abs)))

ElapsedTime == <<"E", "l", "a", "p", "s", "e", "d", " ", "T", "i", "m", "e">>
Other == <<"O", "t", "h", "e", "r">>

\* variant of DefaultDurations: 'Other' for the uncovered time even when there
\* are no durations
OtherOfTotal(durations, totalDuration, totalTime) ==
    IF LessJS(totalDuration, totalTime)
    THEN Append(durations, [type |-> Other,
                            duration |-> SubJS(totalTime, totalDuration)])
    ELSE durations

\* lines 573-585: the default 'Elapsed Time' duration, or 'Other' for the part
\* of the total time the durations do not cover
DefaultDurations(durations, totalDuration, totalTime) ==
    IF Len(durations) = 0
    THEN << [type |-> ElapsedTime, duration |-> totalTime] >>
    ELSE IF LessJS(totalDuration, totalTime)
    THEN Append(durations, [type |-> Other,
                            duration |-> SubJS(totalTime, totalDuration)])
    ELSE durations

\* lines 589-591: delete row.details when it is empty
Details(rows) == [defined |-> rows # <<>>, list |-> rows]

\* lines 573-595: the row, and the profile as createRows leaves it, from what
\* the durations loop (d) and the children loop (c) computed
MadeRow(profile, d, c) ==
    [ row |-> [ Name |-> profile.data.Name,
                type |-> profile.data.type,
                durations |-> DefaultDurations(d.durations, d.totalDuration,
                                               SubJS(c.endTime, c.startTime)),
                details |-> Details(c.details),
                startTime |-> c.startTime,
                endTime |-> c.endTime,
                startMs |-> Undefined,
                endMs |-> Undefined ],
      profile |-> [profile EXCEPT !.startTime = c.startTime,
                                  !.endTime = c.endTime,
                                  !.children = c.children] ]

\* line 561
Named(childProfile) ==
    [childProfile EXCEPT !.data.Name = IF @ # <<>> THEN @ ELSE childProfile.type]

\* lines 563-565: the child's row and profile added to what the loop over its
\* array has so far
ChildRow(acc, made) ==
    [ k |-> acc.k + 1,
      details |-> Append(acc.details, made.row),
      list |-> Append(acc.list, made.profile),
      profileStartTime |-> IF acc.profileStartTime # Undefined
                           THEN acc.profileStartTime ELSE made.row.startTime,
      profileEndTime |-> made.row.endTime ]

\* lines 568-570: the profile's times widened by those of one child array
ChildArray(acc, i, a) ==
    [ details |-> a.details,
      children |-> [acc.children EXCEPT ![i].list = a.list],
      startTime |-> WidenStart(acc.startTime, a.profileStartTime),
      endTime |-> WidenEnd(acc.endTime, a.profileEndTime) ]

\* createRows(profile, rows): the row pushed to rows, and the profile as the
\* call leaves it (its times normalized and widened, its children's Name set)
RECURSIVE CreateRows(_, _)
RECURSIVE RowsAfterDurations(_, _, _)
RECURSIVE ChildArrayRows(_, _, _)
RECURSIVE ChildrenRows(_, _, _, _)
CreateRows(profile, abs) ==
    RowsAfterDurations(profile, abs,
        DurationRows(profile.durations, abs,
            [ durations |-> <<>>, totalDuration |-> 0,
              startTime |-> Normalize(profile.startTime, abs),
              endTime |-> Normalize(profile.endTime, abs) ]))

RowsAfterDurations(profile, abs, d) ==
    MadeRow(profile, d,
        ChildrenRows(profile.children, abs, 1,
            [ details |-> <<>>, children |-> profile.children,
              startTime |-> d.startTime, endTime |-> d.endTime ]))

\* lines 558-566, over one child array from its place acc.k on
ChildArrayRows(profileArray, abs, acc) ==
    IF acc.k > Len(profileArray) THEN acc
    ELSE ChildArrayRows(profileArray, abs,
            ChildRow(acc, CreateRows(Named(profileArray[acc.k]), abs)))

\* lines 554-571, over the child arrays from place i on
ChildrenRows(children, abs, i, acc) ==
    IF i > Len(children) THEN acc
    ELSE ChildrenRows(children, abs, i + 1,
            ChildArray(acc, i,
                ChildArrayRows(children[i].list, abs,
                    [ k |-> 1, details |-> acc.details, list |-> <<>>,
                      profileStartTime |-> Undefined, profileEndTime |-> Undefined ])))

\* lines 599-602
RECURSIVE NormalizeEvents(_, _)
NormalizeEvents(evs, abs) ==
    IF evs = <<>> THEN <<>>
    ELSE << [Head(evs) EXCEPT !.time = Normalize(@, abs)] >>
         \o NormalizeEvents(Tail(evs), abs)

\* ------------------------------------------------------------ getStats

\* Y.mojito.Waterfall.Time.timeToMs on a time in the waterfall's units ('ms' in
\* the browser): the number of milliseconds, NaN for what is no number
TimeToMs(time) == IF IsNum(time) THEN time ELSE NaN

\* getMsTime, lines 306-309
GetMsTime(row) ==
    [row EXCEPT !.startMs = IF @ = Undefined THEN TimeToMs(row.startTime) ELSE @,
                !.endMs = IF @ = Undefined THEN TimeToMs(row.endTime) ELSE @]

\* the comparison function of rows.sort, lines 340-342
CompareStart(a, b) ==
    IF IsNum(a.startMs) /\ IsNum(b.startMs) /\ a.startMs > b.startMs THEN 1
    ELSE IF LessJS(a.startMs, b.startMs) THEN -1 ELSE 0

\* Array.prototype.sort on a short array: insertion sort, each element moved
\* left past the elements that compare greater
\* the rows left in the order in which they were merged
UnsortedRows(rows, sorted) == sorted \o rows

RECURSIVE InsertRow(_, _)
InsertRow(sorted, row) ==
    IF sorted # <<>> /\ CompareStart(sorted[Len(sorted)], row) > 0
    THEN Append(InsertRow(SubSeq(sorted, 1, Len(sorted) - 1), row), sorted[Len(sorted)])
    ELSE Append(sorted, row)

RECURSIVE SortRows(_, _)
SortRows(rows, sorted) ==
    IF rows = <<>> THEN sorted ELSE SortRows(Tail(rows), InsertRow(sorted, Head(rows)))

Digits == <<"0", "1", "2", "3", "4", "5", "6", "7", "8", "9">>

\* String(n)
RECURSIVE NumString(_)
NumString(n) ==
    IF n < 10 THEN <<Digits[n + 1]>>
    ELSE NumString(n \div 10) \o <<Digits[(n % 10) + 1]>>

\* lines 343-346: a name some other row of rows has too
Repeated(rows, name) == Cardinality({ i \in 1..Len(rows) : rows[i].Name = name }) > 1

\* lines 348-353: the k-th row with a repeated name gets ' (k)' after its name
RECURSIVE RenamedRows(_, _)
RenamedRows(rows, i) ==
    IF i > Len(rows) THEN <<>>
    ELSE << IF Repeated(rows, rows[i].Name)
            THEN [rows[i] EXCEPT !.Name = @ \o <<" ", "(">>
                    \o NumString(Cardinality({ j \in 1..i : rows[j].Name = rows[i].Name }))
                    \o <<")">>]
            ELSE rows[i] >>
         \o RenamedRows(rows, i + 1)

\* lines 354-356: getMsTime on each duration that is not the default one. A
\* duration has no startTime and no endTime: its ms times are what timeToMs
\* makes of 'undefined'
RECURSIVE MsDurations(_)
MsDurations(durations) ==
    IF durations = <<>> THEN <<>>
    ELSE << IF Head(durations).type # ElapsedTime
            THEN [ type |-> Head(durations).type,
                   duration |-> Head(durations).duration,
                   startMs |-> TimeToMs(Undefined),
                   endMs |-> TimeToMs(Undefined) ]
            ELSE Head(durations) >>
         \o MsDurations(Tail(durations))

RECURSIVE TimedRows(_)
TimedRows(rows) ==
    IF rows = <<>> THEN <<>> ELSE <<GetMsTime(Head(rows))>> \o TimedRows(Tail(rows))

\* what getStats leaves of the rows it is given: each list of rows given its
\* ms times, sorted by start time and renamed, and so its details in turn
RECURSIVE StatRows(_)
RECURSIVE StatDetails(_)
StatRows(rows) == StatDetails(RenamedRows(SortRows(TimedRows(rows), <<>>), 1))

StatDetails(rows) ==
    IF rows = <<>> THEN <<>>
    ELSE << [Head(rows) EXCEPT !.durations = MsDurations(@),
                               !.details.list = StatRows(@)] >>
         \o StatDetails(Tail(rows))

\* ------------------------------------------------------------ computeStats

\* the expressions the callers configure as filters, besides 'f'
CallsOverOne == <<"C", "a", "l", "l", "s", " ", ">", " ", "1">>

CallsOver == <<"C", "a", "l", "l", "s", " ", ">">>

\* Waterfall._executeExpression (lines 189-226) on the expressions the callers
\* configure: null without an expression. The variables of 'Calls > 1' and of
\* 'Calls >' are what is left of the parts around '>' once the empty ones and
\* the numbers are removed: Calls alone, replaced by values.Calls. 'Calls > 1'
\* then evaluates to the comparison, which is false of undefined when the
\* values have no Calls; 'Calls >' does not evaluate, the error is caught and
\* null returned. The expression 'f' names no field of the values, so that it
\* becomes 'undefined' and evaluates to undefined
ExecuteExpression(expression, values) ==
    IF expression = <<>> THEN "null"
    ELSE IF expression = CallsOverOne
         THEN (IF "Calls" \in DOMAIN values /\ values.Calls > 1 THEN "true" ELSE "false")
    ELSE IF expression = CallsOver THEN "null"
    ELSE "undefined"

\* line 314: profile.type || profile.Name
StatType(type, name) == IF type # <<>> THEN type ELSE name

\* the place of a type in stats, 0 when stats has no such type
StatIndex(stats, type) ==
    IF \E i \in 1..Len(stats) : stats[i].type = type
    THEN CHOOSE i \in 1..Len(stats) : stats[i].type = type
    ELSE 0

\* lines 318-323
PushStat(stats, type, value) ==
    IF StatIndex(stats, type) = 0
    THEN Append(stats, [type |-> type, values |-> <<value>>])
    ELSE [stats EXCEPT ![StatIndex(stats, type)].values = Append(@, value)]

\* addStat(profile, root), lines 310-327, on the stats, minTime and maxTime so
\* far; name is <<>> for a duration, which has no Name
AddStat(acc, filter, type, name, startMs, endMs, root) ==
    IF ExecuteExpression(filter, [Name |-> name]) = "false" THEN acc
    ELSE [ stats |-> PushStat(acc.stats, StatType(type, name),
                              [startTime |-> startMs, endTime |-> endMs, root |-> root]),
           minTime |-> IF acc.minTime = Undefined THEN startMs
                       ELSE MathMin(startMs, acc.minTime),
           maxTime |-> IF acc.maxTime = Undefined THEN endMs
                       ELSE MathMax(endMs, acc.maxTime) ]

\* lines 354-359: the durations of a row other than the default one
RECURSIVE DurationStats(_, _, _, _)
DurationStats(durations, filter, root, acc) ==
    IF durations = <<>> THEN acc
    ELSE DurationStats(Tail(durations), filter, root,
            IF Head(durations).type # ElapsedTime
            THEN AddStat(acc, filter, Head(durations).type, <<>>,
                         Head(durations).startMs, Head(durations).endMs, root)
            ELSE acc)

\* root || row.Name
RootOr(root, name) == IF root # <<>> THEN root ELSE name

\* getStats(rows, root), lines 348-362, on rows that have their ms times, their
\* order and their new names: for each row its durations, the row, then its
\* details
RECURSIVE GetStats(_, _, _, _)
GetStats(rows, filter, root, acc) ==
    IF rows = <<>> THEN acc
    ELSE GetStats(Tail(rows), filter, root,
            GetStats(Head(rows).details.list, filter, RootOr(root, Head(rows).Name),
                AddStat(DurationStats(Head(rows).durations, filter, root, acc),
                        filter, Head(rows).type, Head(rows).Name,
                        Head(rows).startMs, Head(rows).endMs,
                        RootOr(root, Head(rows).Name))))

\* a / b
DivJS(a, b) == IF IsNum(a) THEN <<a, b>> ELSE <<NaN, 1>>

\* lines 384-387, 388-391: the least and the greatest duration so far, with the
\* name it came with
LeastDuration(least, duration, name) ==
    IF least.duration = Undefined \/ LessJS(duration, least.duration)
    THEN [duration |-> duration, name |-> name] ELSE least

GreatestDuration(greatest, duration, name) ==
    IF greatest.duration = Undefined \/ LessJS(greatest.duration, duration)
    THEN [duration |-> duration, name |-> name] ELSE greatest

\* lines 382-398, one value of a type added to what the loop has so far
StatValue(acc, duration, name) ==
    [ totalDuration |-> AddJS(acc.totalDuration, duration),
      minDuration |-> LeastDuration(acc.minDuration, duration, name),
      maxDuration |-> GreatestDuration(acc.maxDuration, duration, name),
      summary |-> Append(acc.summary, [Name |-> name, Duration |-> duration]) ]

\* lines 381-399
RECURSIVE StatValues(_, _)
StatValues(values, acc) ==
    IF values = <<>> THEN acc
    ELSE StatValues(Tail(values),
            StatValue(acc, SubJS(Head(values).endTime, Head(values).startTime),
                      Head(values).root))

\* summarySorter, lines 303-305: b.Duration - a.Duration
SummarySorter(a, b) == SubJS(b.Duration, a.Duration)

\* stat.summary.sort(summarySorter) on a short array: insertion sort, a result
\* of the sorter that is no number counts as 0
RECURSIVE InsertSummary(_, _)
InsertSummary(sorted, s) ==
    IF sorted # <<>> /\ IsNum(SummarySorter(sorted[Len(sorted)], s))
                     /\ SummarySorter(sorted[Len(sorted)], s) > 0
    THEN Append(InsertSummary(SubSeq(sorted, 1, Len(sorted) - 1), s), sorted[Len(sorted)])
    ELSE Append(sorted, s)

RECURSIVE SortSummary(_, _)
SortSummary(summary, sorted) ==
    IF summary = <<>> THEN sorted
    ELSE SortSummary(Tail(summary), InsertSummary(sorted, Head(summary)))

\* lines 368-376 and 401-417: the stat of a type from what the loop over its
\* values computed. The durations are the numbers that lines 411-420 hand to
\* msTimeToString; annotated tells whether the name follows the text of the
\* least and of the greatest duration
MadeStat(statType, calls, v) ==
    [ Name |-> statType,
      Calls |-> calls,
      TotalDuration |-> v.totalDuration,
      AvgDuration |-> DivJS(v.totalDuration, calls),
      MinDuration |-> [ duration |-> v.minDuration.duration,
                        name |-> v.minDuration.name,
                        annotated |-> v.minDuration.name # statType ],
      MaxDuration |-> [ duration |-> v.maxDuration.duration,
                        name |-> v.maxDuration.name,
                        annotated |-> v.maxDuration.name # statType ],
      summary |-> SortSummary(v.summary, <<>>) ]

\* lines 367-424 for one type: stats[statType] becomes the stat, unless the
\* stats filter is false of it: then it stays the array of values. The filter
\* is given the stat, of which the configured expressions name the Calls
TypeStat(statType, values, filter) ==
    [ type |-> statType,
      values |-> values,
      stat |-> IF ExecuteExpression(filter, [Name |-> statType, Calls |-> Len(values)])
                    = "false" THEN <<>>
               ELSE << MadeStat(statType, Len(values),
                          StatValues(values,
                              [ totalDuration |-> 0,
                                minDuration |-> [duration |-> Undefined, name |-> <<>>],
                                maxDuration |-> [duration |-> Undefined, name |-> <<>>],
                                summary |-> <<>> ])) >> ]

RECURSIVE TypeStats(_, _)
TypeStats(stats, filter) ==
    IF stats = <<>> THEN <<>>
    ELSE << TypeStat(Head(stats).type, Head(stats).values, filter) >>
         \o TypeStats(Tail(stats), filter)

\* lines 365-427 from what getStats collected: the stats by type, in the order
\* the types were first met, and the total duration
CollectedStats(acc, filter) ==
    [ types |-> TypeStats(acc.stats, filter),
      totalDuration |-> SubJS(acc.maxTime, acc.minTime) ]

\* Waterfall.computeStats(waterfall, config) on the rows getStats leaves
ComputeStats(rows, cfg) ==
    CollectedStats(GetStats(rows, cfg.profileFilter, <<>>,
                            [stats |-> <<>>, minTime |-> Undefined, maxTime |-> Undefined]),
                   cfg.statsFilter)

\* lines 271-284 of Waterfall.getSummary: the rows of the table below its
\* header, one for each value of stats that Y.Lang.isObject holds of: a stat,
\* or the array of values a type was left with (an array is an object), but not
\* the text of totalDuration. Of each row the cells Name and Calls: those of
\* the stat, and undefined for an array, which has no such properties
RECURSIVE SummaryTable(_)
SummaryTable(types) ==
    IF types = <<>> THEN <<>>
    ELSE << IF Head(types).stat # <<>>
            THEN [Name |-> Head(types).stat[1].Name, Calls |-> Head(types).stat[1].Calls]
            ELSE [Name |-> <<>>, Calls |-> Undefined] >>
         \o SummaryTable(Tail(types))

\* ------------------------------------------------------------ Waterfall

VARIABLES
    family,             \* the keys, event names and data the callers of this run use
    now,                \* the latest reading of Waterfall._now()
    calls,              \* this._calls
    methods,            \* which function each of the instance's methods is
    originals,          \* this._originalStart, _originalEnd, _originalEvent
    config,             \* this.config
    rootProfile,        \* this._rootProfile: <<>> while undefined, else <<profile>>
    events,             \* this.events
    absoluteStartTime,  \* this.absoluteStartTime
    absoluteEndTime,    \* this.absoluteEndTime
    waterfall,          \* this.waterfall: <<>> while undefined, else <<waterfall>>
    errors,             \* the errors given to Y.log so far
    returned,           \* what getGui returned: <<>> before its first call, then
                        \* <<its first result, its latest result, whether it has
                        \* returned more than once>>
    reconciled,         \* how many times the call log has been reconciled
    shadow,             \* the recorder the documentation describes: whether it is
                        \* paused, the log it holds, and how long the log was
                        \* when it last left a call out (-1: it never did)
    ac                  \* the commands the waterfall dispatcher was given, by the
                        \* name of their mojit: how far each has come, the _id and
                        \* the name of its action context, and whether the
                        \* waterfall took the calls made when its controller
                        \* reported

vars == << family, ac, now, calls, methods, originals, config, rootProfile, events,
           absoluteStartTime, absoluteEndTime, waterfall, errors, returned,
           reconciled, shadow >>

\* the longest call log, the latest clock reading and the most event calls of
\* a log that the model explores
MaxCalls == 4
MaxTime == 11
MaxEvents == 1

\* the time that passes between two readings of the clock
Deltas == {0, 5}

KeyA == <<"a">>
KeyB == <<"b">>
KeyR == <<"/", "r">>
KeyRA == <<"/", "r", "/", "a">>
KeyX == <<"/", "x">>
KeyAWarm == <<"a", ":", "w", "a", "r", "m">>
KeyACold == <<"a", ":", "c", "o", "l", "d">>
KeyMalformed == <<"a", "/", "/", "b">>
EventName == <<"e">>

KeyPQ == <<"p", "/", "q">>
KeyBlank == <<" ">>
KeyBlankLabelled == <<"a", "/", " ", ":", "x">>
KeyABWarm == <<"a", "/", "b", ":", "w">>

\* the callers of one run: the keys and event names they use, the data they
\* pass to start and end and to event, and how many calls more than MaxCalls
\* and event calls more than MaxEvents they make
EventFamily(keys, names, eventData, more, moreEvents) ==
    [ keys |-> keys, names |-> names, data |-> {NoData}, eventData |-> eventData,
      more |-> more, moreEvents |-> moreEvents ]

Family(keys, names, more) == EventFamily(keys, names, {NoData}, more, 0)

\* the callers of the recording runs: two keys each, or one key and a longer log
RecordFamilies ==
    { Family({KeyA, KeyB}, {EventName}, 0),
      Family({KeyR, KeyRA}, {}, 0),
      Family({KeyAWarm, KeyACold}, {}, 0),
      Family({KeyA, KeyMalformed}, {}, 0),
      Family({KeyA, KeyBlank}, {}, 0),
      Family({KeyA, KeyBlankLabelled}, {}, 0),
      Family({KeyA, KeyABWarm}, {}, 0),
      [Family({KeyPQ}, {}, 0) EXCEPT !.data = {NoData, TypedData}],
      Family({KeyA, KeyX}, {}, 0),
      Family({KeyPQ, KeyA}, {}, 0),
      Family({KeyA}, {}, 2),
      Family({KeyRA}, {}, 2),
      Family({KeyAWarm}, {}, 2),
      EventFamily({KeyA}, {EventName}, {NoData, TimedData}, 0, 1) }

KeyXY == <<"/", "x", "/", "y">>
KeyXZ == <<"/", "x", "/", "z">>
KeyPQW == <<"p", "/", "q", ":", "w">>

\* the callers that end what they started before they start it again: three
\* keys under one first segment and a longer log, or a key of two segments
\* with a duration label and the same key without the label
PairedFamilies ==
    { Family({KeyXY, KeyXZ, KeyX}, {}, 2),
      Family({KeyPQW, KeyPQ}, {}, 0),
      Family({KeyAWarm, KeyB}, {}, 2) }

\* the callers of the runs that use every method of the instance
FacadeFamilies == { Family({KeyA}, {EventName}, 0) }

\* function Waterfall(config), with a config that sets no filter
EmptyConfig == [profileFilter |-> <<>>, statsFilter |-> <<>>]

PrototypeMethods ==
    [ m \in {"configure", "start", "end", "event", "clear", "pause", "resume"} |-> "prototype" ]

InitWaterfall ==
    /\ now = 1
    /\ calls = <<>>
    /\ methods = PrototypeMethods
    /\ originals = [ m \in {"start", "end", "event"} |-> "undefined" ]
    /\ config = EmptyConfig
    /\ rootProfile = <<>>
    /\ events = <<>>
    /\ absoluteStartTime = Undefined
    /\ absoluteEndTime = Undefined
    /\ waterfall = <<>>
    /\ errors = {}
    /\ returned = <<>>
    /\ reconciled = 0
    /\ shadow = [paused |-> FALSE, calls |-> <<>>, dropped |-> -1]
    /\ ac = <<>>

Init == family \in FacadeFamilies /\ InitWaterfall

InitRecord == family \in RecordFamilies /\ InitWaterfall

\* the function _disable puts in place of a method, line 753
DisabledError ==
    ErrorEntry("Cannot continue profiling after the waterfall has been finalized.", <<>>)

Disabled == /\ errors' = errors \cup {DisabledError}
            /\ UNCHANGED << family, ac, now, calls, methods, originals, config, rootProfile,
                            events, absoluteStartTime, absoluteEndTime, waterfall,
                            returned, reconciled, shadow >>

\* the documented recorder appends a call unless it is paused
ShadowCall(entry) ==
    IF shadow.paused THEN [shadow EXCEPT !.dropped = Len(shadow.calls)]
    ELSE [shadow EXCEPT !.calls = Append(@, entry)]

CountEvents(log) == Cardinality({ i \in 1..Len(log) : log[i].type = "event" })

\* a call of this.start, this.end or this.event that makes entry when it records
Record(method, entry) ==
    CASE methods[method] = "prototype" ->
                /\ Len(calls) < MaxCalls + family.more
                /\ entry.time <= MaxTime
                /\ now' = entry.time
                /\ calls' = Append(calls, entry)
                /\ shadow' = ShadowCall(entry)
                /\ UNCHANGED << family, ac, methods, originals, config, rootProfile, events,
                                absoluteStartTime, absoluteEndTime, waterfall, errors,
                                returned, reconciled >>
      [] methods[method] = "noop" ->
                /\ shadow' = ShadowCall(entry)
                /\ UNCHANGED << family, ac, now, calls, methods, originals, config,
                                rootProfile, events, absoluteStartTime, absoluteEndTime,
                                waterfall, errors, returned, reconciled >>
      [] methods[method] = "disabled" -> Disabled

\* Waterfall.prototype.start
start(profileKey, data, dt) ==
    Record("start", [type |-> "start", profileKey |-> profileKey, name |-> <<>>,
                     time |-> now + dt, data |-> data])

\* Waterfall.prototype.end
end(profileKey, data, dt) ==
    Record("end", [type |-> "end", profileKey |-> profileKey, name |-> <<>>,
                   time |-> now + dt, data |-> data])

\* Waterfall.prototype.event
event(name, data, dt) ==
    /\ CountEvents(calls) < MaxEvents + family.moreEvents
    /\ Record("event", [type |-> "event", profileKey |-> <<>>, name |-> name,
                        time |-> now + dt, data |-> data])

\* Waterfall.prototype.clear
clear ==
    IF methods["clear"] = "disabled" THEN Disabled
    ELSE /\ calls' = <<>>
         /\ shadow' = [shadow EXCEPT !.calls = <<>>]
         /\ UNCHANGED << family, ac, now, methods, originals, config, rootProfile, events,
                         absoluteStartTime, absoluteEndTime, waterfall, errors,
                         returned, reconciled >>

\* variant of SavedOriginal: without the `||`, the method is saved at every pause
SavedAgain(m) == methods[m]

\* this._originalStart = this._originalStart || this.start, and so on
SavedOriginal(m) == IF originals[m] # "undefined" THEN originals[m] ELSE methods[m]

\* Waterfall.prototype.pause
pause ==
    IF methods["pause"] = "disabled" THEN Disabled
    ELSE /\ originals' = [ m \in {"start", "end", "event"} |-> SavedOriginal(m) ]
         /\ methods' = [ m \in DOMAIN methods |->
                           IF m \in {"start", "end", "event"} THEN "noop" ELSE methods[m] ]
         /\ shadow' = [shadow EXCEPT !.paused = TRUE]
         /\ UNCHANGED << family, ac, now, calls, config, rootProfile, events,
                         absoluteStartTime, absoluteEndTime, waterfall, errors,
                         returned, reconciled >>

\* this.start = this._originalStart || this.start, and so on
RestoredMethod(m) == IF originals[m] # "undefined" THEN originals[m] ELSE methods[m]

\* Waterfall.prototype.resume
resume ==
    IF methods["resume"] = "disabled" THEN Disabled
    ELSE /\ methods' = [ m \in DOMAIN methods |->
                           IF m \in {"start", "end", "event"} THEN RestoredMethod(m)
                           ELSE methods[m] ]
         /\ originals' = [ m \in {"start", "end", "event"} |-> "undefined" ]
         /\ shadow' = [shadow EXCEPT !.paused = FALSE]
         /\ UNCHANGED << family, ac, now, calls, config, rootProfile, events,
                         absoluteStartTime, absoluteEndTime, waterfall, errors,
                         returned, reconciled >>

\* the filters a caller configures
Filters == { <<>>, <<"f">>, CallsOverOne, CallsOver }

\* Waterfall.prototype.configure: Y.mix(this.config, config, true, null, 0, true)
configure(given) ==
    IF methods["configure"] = "disabled" THEN Disabled
    ELSE /\ config' = [ f \in DOMAIN config |->
                          IF given[f] # <<>> THEN given[f] ELSE config[f] ]
         /\ UNCHANGED << family, ac, now, calls, methods, originals, rootProfile, events,
                         absoluteStartTime, absoluteEndTime, waterfall, errors,
                         returned, reconciled, shadow >>

\* variant of DisabledMethods: clear is left as it is
DisabledButClear ==
    [ m \in DOMAIN methods |-> IF m = "clear" THEN methods[m] ELSE "disabled" ]

\* Waterfall.prototype._disable
DisabledMethods == [ m \in DOMAIN methods |-> "disabled" ]

\* Math.max(self.absoluteEndTime, x || 0) over the rows createRows makes, each
\* after its details (line 594)
RECURSIVE RowsEndTime(_, _)
RowsEndTime(rows, acc) ==
    IF rows = <<>> THEN acc
    ELSE RowsEndTime(Tail(rows),
            MathMax(RowsEndTime(Head(rows).details.list, acc), OrJS(Head(rows).endTime, 0)))

\* line 601
RECURSIVE EventsEndTime(_, _)
EventsEndTime(evs, acc) ==
    IF evs = <<>> THEN acc
    ELSE EventsEndTime(Tail(evs), MathMax(acc, OrJS(Head(evs).time, 0)))

\* lines 504-620 of getGui on an instance that has no waterfall yet: the
\* instance's new fields
\* lines 510-516 and 603-611: the waterfall of the rows getStats leaves
MadeWaterfall(defined, rows, evs) ==
    [ headers |-> << <<"N", "a", "m", "e">> >>,
      rows |-> [defined |-> defined, list |-> rows],
      units |-> "ms",
      events |-> evs,
      stats |-> ComputeStats(rows, config) ]

FinalizedRows(log, p, evs, made) ==
    [ calls |-> log,
      rootProfile |-> made.profile,
      events |-> evs,
      absoluteStartTime |-> p.absoluteStartTime,
      absoluteEndTime |-> RowsEndTime(<<made.row>>, EventsEndTime(evs, 0)),
      errors |-> p.errors,
      waterfall |-> MadeWaterfall(made.row.details.defined,
                                  StatRows(made.row.details.list), evs) ]

FinalizedFrom(log, p) ==
    FinalizedRows(log, p, NormalizeEvents(p.events, p.absoluteStartTime),
                  CreateRows(p.rootProfile, p.absoluteStartTime))

\* getGui on a fresh instance whose call log is log
Finalized(log) == FinalizedFrom(TrimmedCalls(log), ProcessCalls(log))

\* lines 631-633: _processCalls returns at once when the root profile exists
AlreadyProcessed ==
    [ rootProfile |-> rootProfile[1], events |-> events,
      absoluteStartTime |-> absoluteStartTime, errors |-> {} ]

\* lines 504-620 on this instance
FinalizedInstance ==
    IF rootProfile # <<>> THEN FinalizedFrom(calls, AlreadyProcessed)
    ELSE Finalized(calls)

\* the state getGui leaves: the cached waterfall when there is one, else the
\* instance disabled and finalized
Finalize(f) ==
    /\ methods' = DisabledMethods
    /\ calls' = f.calls
    /\ rootProfile' = <<f.rootProfile>>
    /\ events' = f.events
    /\ absoluteStartTime' = f.absoluteStartTime
    /\ absoluteEndTime' = f.absoluteEndTime
    /\ errors' = errors \cup f.errors
    /\ waterfall' = <<f.waterfall>>
    /\ reconciled' = IF rootProfile # <<>> THEN reconciled ELSE reconciled + 1
    /\ UNCHANGED << family, ac, now, originals, config, shadow >>

\* variant of GetGuiState: without the test of this.waterfall
GetGuiUncached == Finalize(FinalizedInstance)

\* lines 496-503, and 504-620 through Finalize
GetGuiState ==
    IF waterfall # <<>>
    THEN UNCHANGED << family, ac, now, calls, methods, originals, config, rootProfile,
                      events, absoluteStartTime, absoluteEndTime, waterfall, errors,
                      reconciled, shadow >>
    ELSE Finalize(FinalizedInstance)

\* Waterfall.prototype.getGui
getGui ==
    /\ GetGuiState
    /\ returned' = IF returned = <<>> THEN <<waterfall'[1], waterfall'[1], FALSE>>
                   ELSE <<returned[1], waterfall'[1], TRUE>>

\* Waterfall.prototype.getSummary: getGui, then the text of its stats
getSummary ==
    /\ GetGuiState
    /\ UNCHANGED returned

Next ==
    \/ \E k \in family.keys, d \in family.data, dt \in Deltas : start(k, d, dt)
    \/ \E k \in family.keys, d \in family.data, dt \in Deltas : end(k, d, dt)
    \/ \E n \in family.names, d \in family.eventData, dt \in Deltas : event(n, d, dt)
    \/ clear
    \/ pause
    \/ resume
    \/ \E f \in Filters : configure([profileFilter |-> <<>>, statsFilter |-> f])
    \/ getGui
    \/ getSummary

Spec == Init /\ [][Next]_vars

NextRecord ==
    \/ \E k \in family.keys, d \in family.data, dt \in Deltas : start(k, d, dt)
    \/ \E k \in family.keys, d \in family.data, dt \in Deltas : end(k, d, dt)
    \/ \E n \in family.names, d \in family.eventData, dt \in Deltas : event(n, d, dt)
    \/ getGui

SpecRecord == InitRecord /\ [][NextRecord]_vars

InitPaired == family \in PairedFamilies /\ InitWaterfall

\* the last call of the log with the key is a start
Started(log, k) ==
    \E i \in 1..Len(log) :
        /\ log[i].type = "start" /\ log[i].profileKey = k
        /\ \A j \in (i + 1)..Len(log) : log[j].profileKey # k

\* callers that start a key that is not started and end a key that is
NextPaired ==
    \/ \E k \in family.keys, d \in family.data, dt \in Deltas :
          ~Started(calls, k) /\ start(k, d, dt)
    \/ \E k \in family.keys, d \in family.data, dt \in Deltas :
          Started(calls, k) /\ end(k, d, dt)
    \/ getGui

SpecPaired == InitPaired /\ [][NextPaired]_vars

\* ------------------------------------------------- waterfall dispatcher

\* the key of a span of a mojit: '/' + name + '/' + part
SpanKey(name, part) ==
    <<"/">> \o name \o <<"/">> \o
        CASE part = "Expand Instance" -> <<"E", "x", "p", "a", "n", "d", " ", "I", "n", "s", "t", "a", "n", "c", "e">>
          [] part = "Create Action Context" -> <<"C", "r", "e", "a", "t", "e", " ", "A", "c", "t", "i", "o", "n", " ", "C", "o", "n", "t", "e", "x", "t">>
          [] part = "Controller" -> <<"C", "o", "n", "t", "r", "o", "l", "l", "e", "r">>
          [] part = "Render" -> <<"R", "e", "n", "d", "e", "r">>

\* the calls of this.waterfall.start and this.waterfall.end that one function
\* of the dispatcher or of the action context makes, one after the other, each
\* given as <<method, key>> and all read at the time t; and the commands as the
\* function leaves them. The data of these calls declares no type. A finalized
\* waterfall takes no call and logs an error
Dispatched(made, t, commands) ==
    /\ t <= MaxTime
    /\ ac' = commands
    /\ IF methods["start"] = "prototype"
       THEN /\ now' = t
            /\ LET entries == [ i \in 1..Len(made) |->
                                 [ type |-> made[i][1], profileKey |-> made[i][2],
                                   name |-> <<>>, time |-> t, data |-> NoData ] ]
               IN  /\ calls' = calls \o entries
                   /\ shadow' = [shadow EXCEPT !.calls = @ \o entries]
            /\ UNCHANGED << family, methods, originals, config, rootProfile, events,
                            absoluteStartTime, absoluteEndTime, waterfall, errors,
                            returned, reconciled >>
       ELSE /\ errors' = errors \cup {DisabledError}
            /\ UNCHANGED << family, now, calls, methods, originals, config, rootProfile,
                            events, absoluteStartTime, absoluteEndTime, waterfall,
                            returned, reconciled, shadow >>

\* Dispatcher.dispatch, lines 54-86, of a command whose context is valid and
\* that is not sent through the RPC tunnel
dispatch(name, dt) ==
    /\ name \notin DOMAIN ac
    /\ Dispatched(<< <<"start", <<"/">> \o name>>,
                     <<"start", SpanKey(name, "Expand Instance")>> >>,
                  now + dt,
                  [ n \in DOMAIN ac \cup {name} |->
                      IF n = name
                      THEN [state |-> "expanding", id |-> <<>>, name |-> <<>>,
                            recorded |-> FALSE]
                      ELSE ac[n] ])

\* the callback of store.expandInstance, lines 87-114, for an instance that
\* has a controller, and _createActionContext, lines 14-52, which it calls:
\* the action context is made with the name as its _id (part_001, lines
\* 17-18); its name is what Y.mojito.ActionContext.call(this, opts) leaves in
\* this.name, which the constructor itself does not set; the controller is
\* then called and has not reported yet
createActionContext(name, acName, dt) ==
    /\ name \in DOMAIN ac
    /\ ac[name].state = "expanding"
    /\ Dispatched(<< <<"end", SpanKey(name, "Expand Instance")>>,
                     <<"start", SpanKey(name, "Create Action Context")>>,
                     <<"end", SpanKey(name, "Create Action Context")>>,
                     <<"start", SpanKey(name, "Controller")>> >>,
                  now + dt,
                  [ac EXCEPT ![name] = [state |-> "running", id |-> name,
                                        name |-> acName, recorded |-> FALSE]])

\* ActionContext.prototype.done without more, part_001 lines 31-39
done(name, dt) ==
    /\ name \in DOMAIN ac
    /\ ac[name].state = "running"
    /\ Dispatched(<< <<"end", SpanKey(ac[name].id, "Controller")>>,
                     <<"start", SpanKey(ac[name].id, "Render")>> >>,
                  now + dt,
                  [ac EXCEPT ![name].state = "done",
                             ![name].recorded = methods["end"] = "prototype"])

\* ActionContext.prototype.error, part_001 lines 41-45
error(name, dt) ==
    /\ name \in DOMAIN ac
    /\ ac[name].state = "running"
    /\ Dispatched(<< <<"end", SpanKey(ac[name].name, "Controller")>> >>,
                  now + dt,
                  [ac EXCEPT ![name].state = "failed",
                             ![name].recorded = methods["end"] = "prototype"])

\* the dispatcher is given commands for the mojits m and n; this.name of an
\* action context is the mojit's name when the framework's constructor sets
\* it so, and undefined when it sets no name
NextDispatch ==
    \/ \E name \in {<<"m">>, <<"n">>}, dt \in Deltas : dispatch(name, dt)
    \/ \E name \in DOMAIN ac : \E acName \in {name, <<"u", "n", "d", "e", "f", "i", "n", "e", "d">>},
             dt \in Deltas :
          createActionContext(name, acName, dt)
    \/ \E name \in DOMAIN ac, dt \in Deltas : done(name, dt)
    \/ \E name \in DOMAIN ac, dt \in Deltas : error(name, dt)
    \/ getGui

SpecDispatch == Init /\ [][NextDispatch]_vars

\* ------------------------------------------------------------ properties

\* C1: once getGui has finalized the waterfall, a call of start, end, event,
\* clear, pause, resume or configure changes nothing: the call log, the profile
\* tree, the events, the methods and the waterfall getGui returns stay as they
\* are (the call only logs an error)
C1_FinalizedIsInert ==
    [][waterfall # <<>> =>
        UNCHANGED << calls, rootProfile, events, absoluteStartTime, absoluteEndTime,
                     methods, originals, config, waterfall >>]_vars

\* a finalized waterfall with a non-empty log that has been called again
C1_CalledAfterFinalization ==
    waterfall # <<>> /\ calls # <<>> /\ DisabledError \in errors

\* C2: the call log is reconciled at most once in the life of an instance, and
\* every getGui call after the first returns what the first returned, whatever
\* was called in between
C2_FinalizedOnce ==
    /\ reconciled <= 1
    /\ waterfall # <<>> => reconciled = 1
    /\ returned # <<>> =>
          waterfall # <<>> /\ returned[1] = waterfall[1] /\ returned[2] = returned[1]

\* getGui has returned more than once, with a disabled call made in between,
\* on a waterfall that has rows
C2_ReturnedAgain ==
    /\ returned # <<>>
    /\ returned[3]
    /\ DisabledError \in errors
    /\ returned[2].rows.defined

\* C3: while the waterfall is not finalized, its call log is the log of the
\* documented recorder: pause makes start, end and event append nothing until
\* the next resume, after which calls are appended again; a repeated pause or
\* resume changes nothing
C3_PauseResume ==
    waterfall = <<>> =>
        /\ calls = shadow.calls
        /\ shadow.paused <=> (\A m \in {"start", "end", "event"} : methods[m] = "noop")
        /\ ~shadow.paused => \A m \in {"start", "end", "event"} : methods[m] = "prototype"

\* a call was left out while paused, and calls made after the resume are in
\* the log
C3_ResumedAfterPause ==
    /\ waterfall = <<>>
    /\ ~shadow.paused
    /\ shadow.dropped >= 0
    /\ Len(calls) > shadow.dropped

\* ---------------------------------------- reading a log and a profile tree

WellFormed(k) == ~InvalidKey(k)

Segments(k) == ProfileKey(Trim(k)).profiles

SegmentSet(k) == { Segments(k)[i] : i \in 1..Len(Segments(k)) }

Labelled(k) == ProfileKey(Trim(k)).duration # <<>>

StartsOf(log, k) ==
    { i \in 1..Len(log) : log[i].type = "start" /\ log[i].profileKey = k }

EndsOf(log, k) ==
    { i \in 1..Len(log) : log[i].type = "end" /\ log[i].profileKey = k }

\* the key is started exactly once and ended exactly once, later
OncePaired(log, k) ==
    /\ Cardinality(StartsOf(log, k)) = 1
    /\ Cardinality(EndsOf(log, k)) = 1
    /\ \E i \in StartsOf(log, k), j \in EndsOf(log, k) : i < j

\* the time between the only start and the only end of the key
PairTime(log, k) ==
    log[CHOOSE j \in EndsOf(log, k) : TRUE].time - log[CHOOSE i \in StartsOf(log, k) : TRUE].time

\* the well-formed keys of the start and end calls of the log
KeysUsed(log) ==
    { log[i].profileKey :
        i \in { j \in 1..Len(log) : log[j].type # "event" /\ WellFormed(log[j].profileKey) } }

\* how many spans of the key are open after the first n calls of the log
RECURSIVE OpenSpans(_, _, _)
OpenSpans(log, n, k) ==
    IF n = 0 THEN 0
    ELSE IF log[n].type = "start" /\ log[n].profileKey = k
    THEN OpenSpans(log, n - 1, k) + 1
    ELSE IF log[n].type = "end" /\ log[n].profileKey = k /\ OpenSpans(log, n - 1, k) > 0
    THEN OpenSpans(log, n - 1, k) - 1
    ELSE OpenSpans(log, n - 1, k)

\* the n-th call is an end of a well-formed key that has no open span
UnmatchedEnd(log, n) ==
    /\ log[n].type = "end"
    /\ WellFormed(log[n].profileKey)
    /\ OpenSpans(log, n - 1, log[n].profileKey) = 0

\* the n-th call is an end of a rooted well-formed key that has an open span
RootedEnd(log, n) ==
    /\ log[n].type = "end"
    /\ WellFormed(log[n].profileKey)
    /\ ProfileKey(Trim(log[n].profileKey)).root
    /\ OpenSpans(log, n - 1, log[n].profileKey) > 0

\* the n-th call is a start or an end with a malformed key
MalformedCall(log, n) == log[n].type # "event" /\ ~WellFormed(log[n].profileKey)

Without(log, n) == SubSeq(log, 1, n - 1) \o SubSeq(log, n + 1, Len(log))

\* the log is n times start(k) followed at once by end(k), and nothing else
Alternating(log, k, n) ==
    /\ Len(log) = 2 * n
    /\ \A i \in 1..Len(log) :
          /\ log[i].profileKey = k
          /\ log[i].type = IF i % 2 = 1 THEN "start" ELSE "end"

\* every profile under the child arrays, at any depth
RECURSIVE NodesIn(_)
RECURSIVE NodesOf(_)
NodesIn(children) ==
    IF children = <<>> THEN <<>>
    ELSE NodesOf(Head(children).list) \o NodesIn(Tail(children))

NodesOf(list) ==
    IF list = <<>> THEN <<>>
    ELSE <<Head(list)>> \o NodesIn(Head(list).children) \o NodesOf(Tail(list))

RECURSIVE WithId(_, _)
WithId(nodes, id) ==
    IF nodes = <<>> THEN <<>>
    ELSE (IF Head(nodes).id = id THEN <<Head(nodes)>> ELSE <<>>) \o WithId(Tail(nodes), id)

NodesWithId(tree, id) == WithId(NodesIn(tree.children), id)

\* the profiles the child arrays named id of the given profiles hold
RECURSIVE ChildrenWithId(_, _)
ChildrenWithId(nodes, id) ==
    IF nodes = <<>> THEN <<>>
    ELSE (IF ChildIndex(Head(nodes).children, id) = 0 THEN <<>>
          ELSE Head(nodes).children[ChildIndex(Head(nodes).children, id)].list)
         \o ChildrenWithId(Tail(nodes), id)

\* the profiles reached from the given profiles along the path of ids
RECURSIVE SpansAt(_, _)
SpansAt(nodes, path) ==
    IF path = <<>> THEN nodes
    ELSE SpansAt(ChildrenWithId(nodes, Head(path)), Tail(path))

Unterminated == \E e \in errors : e.message = "End was never called."

\* the profile tree holds one profile for the key's first segment, and the one
\* profile reached from it along the key's other segments took the time between
\* the key's start and its end
OneSpan(tree, log, k) ==
    /\ Len(NodesWithId(tree, Segments(k)[1])) = 1
    /\ Len(SpansAt(NodesWithId(tree, Segments(k)[1]), Tail(Segments(k)))) = 1
    /\ \A i \in 1..Len(SpansAt(NodesWithId(tree, Segments(k)[1]), Tail(Segments(k)))) :
          SubJS(SpansAt(NodesWithId(tree, Segments(k)[1]), Tail(Segments(k)))[i].endTime,
                SpansAt(NodesWithId(tree, Segments(k)[1]), Tail(Segments(k)))[i].startTime)
            = PairTime(log, k)

Siblings(tree, k, n) ==
    /\ Len(SpansAt(<<tree>>, SubSeq(Segments(k), 1, Len(Segments(k)) - 1))) = 1
    /\ Len(SpansAt(<<tree>>, Segments(k))) = n

\* C5 as stated: for any well-formed key, a log of N times start(k) followed at
\* once by end(k) yields N sibling profiles in the same child array
C5_RepeatedPairs_AsStated ==
    waterfall # <<>> =>
        \A k \in family.keys, n \in 1..Len(calls) :
            WellFormed(k) /\ Alternating(calls, k, n) => Siblings(rootProfile[1], k, n)

\* C5: for any well-formed key without a duration label, a log of N times
\* start(k) followed at once by end(k) yields N sibling profiles in the same
\* child array, that of the key's last segment
C5_RepeatedPairs ==
    waterfall # <<>> =>
        \A k \in family.keys, n \in 1..Len(calls) :
            WellFormed(k) /\ ~Labelled(k) /\ Alternating(calls, k, n)
            => Siblings(rootProfile[1], k, n)

\* three pairs of a key of several segments
C5_ThreePairs ==
    /\ waterfall # <<>>
    /\ \E k \in family.keys :
          WellFormed(k) /\ ~Labelled(k) /\ Len(Segments(k)) > 1 /\ Alternating(calls, k, 3)

\* the profiles of the stack from place 2 on
OpenProfiles(stack) == { stack[j] : j \in 2..Len(stack) }

\* the n-th call of the log put the first segment of its key among the root's
\* children, and left every profile that stays open as it was
AttachedToRoot(log, n) ==
    /\ ChildIndex(ProcessPrefix(log, n).stack[1].profile.children,
                  Segments(log[n].profileKey)[1]) # 0
    /\ Len(ProcessPrefix(log, n).stack) = Len(ProcessPrefix(log, n - 1).stack) - 1
    /\ OpenProfiles(ProcessPrefix(log, n).stack)
          \subseteq OpenProfiles(ProcessPrefix(log, n - 1).stack)

\* C6: an end that closes a span whose key begins with '/' attaches the span
\* under the root, whatever spans are open on the stack at that time: the
\* key's first segment is a child of the root (a top-level row), and no open
\* span is given it
C6_RootedToRoot ==
    waterfall # <<>> =>
        \A n \in 1..Len(calls) :
            RootedEnd(calls, n) =>
                /\ AttachedToRoot(calls, n)
                /\ ChildIndex(rootProfile[1].children, Segments(calls[n].profileKey)[1]) # 0

\* a rooted span closed while the span of another key, started before it, is
\* still open
C6_RootedInsideOpenSpan ==
    /\ waterfall # <<>>
    /\ \E n \in 1..Len(calls) :
          /\ RootedEnd(calls, n)
          /\ \E i \in 1..(n - 1) :
                /\ calls[i].type = "start"
                /\ WellFormed(calls[i].profileKey)
                /\ calls[i].profileKey # calls[n].profileKey
                /\ OpenSpans(calls, n, calls[i].profileKey) > 0
                /\ \E j \in StartsOf(calls, calls[n].profileKey) : i < j /\ j < n

\* the reconciler is, but for the errors it logged, the same before and after
\* the n-th call of the log
Ignored(log, n) ==
    /\ ProcessPrefix(log, n).stack = ProcessPrefix(log, n - 1).stack
    /\ ProcessPrefix(log, n).events = ProcessPrefix(log, n - 1).events

\* C7: an end call whose key matches no open span changes nothing: the stack
\* and the tree are as before it, and the finalized waterfall is that of the
\* log without the call
C7_UnmatchedEnd ==
    waterfall # <<>> =>
        \A n \in 1..Len(calls) :
            UnmatchedEnd(calls, n) =>
                /\ Ignored(calls, n)
                /\ Finalized(Without(calls, n)).waterfall = waterfall[1]

\* a finalized log that has rows and an unmatched end made while a span was open
C7_UnmatchedEndInLog ==
    /\ waterfall # <<>>
    /\ waterfall[1].rows.defined
    /\ \E n \in 1..Len(calls) :
          /\ UnmatchedEnd(calls, n)
          /\ \E k \in family.keys : OpenSpans(calls, n, k) > 0

\* C8 as stated: a start or end call with a malformed key creates no profile,
\* leaves the stack as it was, and the finalized waterfall (rows, their start
\* and end times, events) is that of the log without the call
C8_MalformedKey_AsStated ==
    waterfall # <<>> =>
        \A n \in 1..Len(calls) :
            MalformedCall(calls, n) =>
                /\ Ignored(calls, n)
                /\ Finalized(Without(calls, n)).waterfall = waterfall[1]

\* the log is start(k1), end(k1), start(k2), end(k2)
TwoPairs(log, k1, k2) ==
    /\ Len(log) = 4
    /\ log[1].type = "start" /\ log[1].profileKey = k1
    /\ log[2].type = "end" /\ log[2].profileKey = k1
    /\ log[3].type = "start" /\ log[3].profileKey = k2
    /\ log[4].type = "end" /\ log[4].profileKey = k2

Bucket(k, from, to) ==
    [type |-> ProfileKey(Trim(k)).duration, startTime |-> from, endTime |-> to]

\* the tree holds one profile for the two keys, with one bucket for each label
\* that has the times of the label's pair
OneNodeTwoBuckets(tree, log, k1, k2) ==
    /\ Len(NodesWithId(tree, Segments(k1)[1])) = 1
    /\ Len(SpansAt(<<tree>>, Segments(k1))) = 1
    /\ \A i \in 1..Len(SpansAt(<<tree>>, Segments(k1))) :
          SpansAt(<<tree>>, Segments(k1))[i].durations
            = << Bucket(k1, log[1].time, log[2].time), Bucket(k2, log[3].time, log[4].time) >>

\* C9: start and end pairs whose keys have the same id and different duration
\* labels, under the same parent, merge into a single profile that holds one
\* bucket per label with that pair's start and end times, never two siblings
C9_LabelsMerge ==
    waterfall # <<>> =>
        \A k1 \in family.keys, k2 \in family.keys :
            /\ k1 # k2
            /\ WellFormed(k1) /\ WellFormed(k2)
            /\ Labelled(k1) /\ Labelled(k2)
            /\ Segments(k1) = Segments(k2)
            /\ TwoPairs(calls, k1, k2)
            => OneNodeTwoBuckets(rootProfile[1], calls, k1, k2)

\* the pairs of two labels of one id, each taking time
C9_TwoLabels ==
    /\ waterfall # <<>>
    /\ \E k1 \in family.keys, k2 \in family.keys :
          /\ k1 # k2 /\ WellFormed(k1) /\ WellFormed(k2)
          /\ Labelled(k1) /\ Labelled(k2) /\ Segments(k1) = Segments(k2)
          /\ TwoPairs(calls, k1, k2)
          /\ calls[2].time > calls[1].time
          /\ calls[4].time > calls[3].time

\* start('/r') and start('/r/a') at the same time, end('/r/a') 5 later and
\* end('/r') 10 later
NestedPair(log) ==
    /\ Len(log) = 4
    /\ log[1].type = "start" /\ log[1].profileKey = KeyR
    /\ log[2].type = "start" /\ log[2].profileKey = KeyRA
    /\ log[3].type = "end" /\ log[3].profileKey = KeyRA
    /\ log[4].type = "end" /\ log[4].profileKey = KeyR
    /\ log[2].time = log[1].time
    /\ log[3].time = log[1].time + 5
    /\ log[4].time = log[1].time + 10

\* the rows are one row r, from 0 to 10, with one child row a of one 'Elapsed
\* Time' duration of 5
RowWithChild(rows) ==
    /\ rows.defined
    /\ Len(rows.list) = 1
    /\ \A i \in 1..Len(rows.list) :
          /\ rows.list[i].Name = <<"r">>
          /\ rows.list[i].startTime = 0
          /\ rows.list[i].endTime = 10
          /\ rows.list[i].details.defined
          /\ Len(rows.list[i].details.list) = 1
          /\ \A j \in 1..Len(rows.list[i].details.list) :
                /\ rows.list[i].details.list[j].Name = <<"a">>
                /\ rows.list[i].details.list[j].durations
                      = << [type |-> ElapsedTime, duration |-> 5] >>

\* C10 as stated: that log finalizes to one row r with one child a of duration
\* 5, and r's own durations have an 'Other' bucket of 5 for the time the child
\* does not cover
C10_NestedPair_AsStated ==
    waterfall # <<>> /\ NestedPair(calls) =>
        /\ RowWithChild(waterfall[1].rows)
        /\ \A i \in 1..Len(waterfall[1].rows.list) :
              \E d \in 1..Len(waterfall[1].rows.list[i].durations) :
                  waterfall[1].rows.list[i].durations[d] = [type |-> Other, duration |-> 5]

\* C10: that log finalizes to one row r with one child a of duration 5, and
\* r's own durations are the single default bucket 'Elapsed Time' of 10: r has
\* no duration bucket of its own, so that no 'Other' bucket is made
C10_NestedPair ==
    waterfall # <<>> /\ NestedPair(calls) =>
        /\ RowWithChild(waterfall[1].rows)
        /\ \A i \in 1..Len(waterfall[1].rows.list) :
              waterfall[1].rows.list[i].durations
                = << [type |-> ElapsedTime, duration |-> 10] >>

\* that log, finalized
C10_NestedPairFinalized == waterfall # <<>> /\ NestedPair(calls)

\* the canonical form of a well-formed key
Canonical(k) == KeyToString(ProfileKey(Trim(k)))

\* the open spans without the one of the key that was started last
RECURSIVE RemoveLast(_, _)
RemoveLast(open, k) ==
    IF open = <<>> THEN <<>>
    ELSE IF open[Len(open)].key = k THEN SubSeq(open, 1, Len(open) - 1)
    ELSE Append(RemoveLast(SubSeq(open, 1, Len(open) - 1), k), open[Len(open)])

\* the spans open after the first n calls of the log, in the order they were
\* started, each with its canonical key and the time of its start: an end
\* closes the span of its key that was started last
RECURSIVE OpenList(_, _)
OpenList(log, n) ==
    IF n = 0 THEN <<>>
    ELSE IF log[n].type = "start" /\ WellFormed(log[n].profileKey)
    THEN Append(OpenList(log, n - 1),
                [key |-> Canonical(log[n].profileKey), time |-> log[n].time])
    ELSE IF log[n].type = "end" /\ WellFormed(log[n].profileKey)
    THEN RemoveLast(OpenList(log, n - 1), Canonical(log[n].profileKey))
    ELSE OpenList(log, n - 1)

\* the start time an open profile of the stack holds: in the bucket of its
\* key's duration label when it has one
SpanStart(entry) ==
    IF entry.profileKey.duration # <<>>
    THEN Deepest(entry.profile, Len(entry.profileKey.profiles)).durations[1].startTime
    ELSE Deepest(entry.profile, Len(entry.profileKey.profiles)).startTime

\* the profiles of the stack from place i on, each with its key and start time
RECURSIVE StackSpans(_, _)
StackSpans(stack, i) ==
    IF i > Len(stack) THEN <<>>
    ELSE << [key |-> KeyToString(stack[i].profileKey), time |-> SpanStart(stack[i])] >>
         \o StackSpans(stack, i + 1)

\* the stack of the reconciler st, which has taken the first n calls of the
\* log, holds the open spans of these calls, and so after each later call
RECURSIVE StackAgrees(_, _, _)
StackAgrees(st, log, n) ==
    /\ StackSpans(st.stack, 2) = OpenList(log, n)
    /\ n < Len(log) => StackAgrees(ProcessCall(st, log[n + 1]), log, n + 1)

LastOpen(open, k) ==
    IF \E i \in 1..Len(open) : open[i].key = k
    THEN CHOOSE i \in 1..Len(open) :
            open[i].key = k /\ \A j \in 1..Len(open) : open[j].key = k => j <= i
    ELSE 0

\* the n-th call of the log is an end that closes a span of a key that is not
\* rooted while a span of the key o, started before it, is the open span next
\* below it: the closed span is merged under the span of o
ClosedUnder(log, n, o) ==
    /\ log[n].type = "end"
    /\ WellFormed(log[n].profileKey)
    /\ ~ProfileKey(Trim(log[n].profileKey)).root
    /\ LastOpen(OpenList(log, n - 1), Canonical(log[n].profileKey)) > 1
    /\ OpenList(log, n - 1)[LastOpen(OpenList(log, n - 1),
                                     Canonical(log[n].profileKey)) - 1].key = Canonical(o)

\* no call of the log ends the key
NeverEnded(log, o) == EndsOf(log, o) = {}

\* C12 as stated: for every span that is still open at finalization, whatever
\* its well-formed key, each closed span that was merged under it is in the
\* finalized tree directly under the root
C12_Salvage_AsStated ==
    waterfall # <<>> =>
        \A o \in family.keys, n \in 1..Len(calls) :
            WellFormed(o) /\ NeverEnded(calls, o) /\ ClosedUnder(calls, n, o)
            => ChildIndex(rootProfile[1].children, Segments(calls[n].profileKey)[1]) # 0

\* ---------------------------------------------------------------- statistics

\* the stats of the types of the waterfall's stats that are the given type
StatsOfType(stats, type) ==
    { stats.types[i] : i \in { j \in 1..Len(stats.types) : stats.types[j].type = type } }

LastSegment(k) == Segments(k)[Len(Segments(k))]

\* C13 as stated: for a well-formed key without a duration label, and with no
\* declared type, a log of N times start(k) followed at once by end(k) yields
\* one statistics bucket for the span's name, and its Calls is N
C13_OneBucketPerName_AsStated ==
    waterfall # <<>> =>
        \A k \in family.keys, n \in 1..Len(calls) :
            WellFormed(k) /\ ~Labelled(k) /\ Alternating(calls, k, n)
            => /\ Cardinality(StatsOfType(waterfall[1].stats, LastSegment(k))) = 1
               /\ \A s \in StatsOfType(waterfall[1].stats, LastSegment(k)) :
                     /\ s.stat # <<>>
                     /\ s.stat[1].Calls = n

\* the occurrences the statistics are about, read off the rows of the
\* waterfall: each duration of a row other than the default one, with the time
\* it took, and each row at any depth, with the time between its start and its
\* end
RECURSIVE DurationOccurrences(_)
DurationOccurrences(durations) ==
    IF durations = <<>> THEN <<>>
    ELSE (IF Head(durations).type # ElapsedTime
          THEN << [ type |-> Head(durations).type, name |-> Head(durations).type,
                    duration |-> Head(durations).duration ] >>
          ELSE <<>>)
         \o DurationOccurrences(Tail(durations))

RECURSIVE Occurrences(_)
Occurrences(rows) ==
    IF rows = <<>> THEN <<>>
    ELSE DurationOccurrences(Head(rows).durations)
         \o << [ type |-> StatType(Head(rows).type, Head(rows).Name),
                 name |-> Head(rows).Name,
                 duration |-> SubJS(Head(rows).endTime, Head(rows).startTime) ] >>
         \o Occurrences(Head(rows).details.list)
         \o Occurrences(Tail(rows))

RECURSIVE OfType(_, _)
OfType(occurrences, type) ==
    IF occurrences = <<>> THEN <<>>
    ELSE (IF Head(occurrences).type = type THEN <<Head(occurrences)>> ELSE <<>>)
         \o OfType(Tail(occurrences), type)

RECURSIVE SumOf(_)
SumOf(occurrences) ==
    IF occurrences = <<>> THEN 0
    ELSE AddJS(Head(occurrences).duration, SumOf(Tail(occurrences)))

\* the stat has the count, the total and the average of the occurrences, and
\* its least and its greatest duration are those of an occurrence that no other
\* occurrence is below or above, with that occurrence's name
StatAgrees(stat, occurrences) ==
    /\ stat.Calls = Len(occurrences)
    /\ stat.TotalDuration = SumOf(occurrences)
    /\ stat.AvgDuration = DivJS(SumOf(occurrences), Len(occurrences))
    /\ \E i \in 1..Len(occurrences) :
          /\ stat.MinDuration.duration = occurrences[i].duration
          /\ stat.MinDuration.name = occurrences[i].name
          /\ \A j \in 1..Len(occurrences) :
                ~LessJS(occurrences[j].duration, occurrences[i].duration)
    /\ \E i \in 1..Len(occurrences) :
          /\ stat.MaxDuration.duration = occurrences[i].duration
          /\ stat.MaxDuration.name = occurrences[i].name
          /\ \A j \in 1..Len(occurrences) :
                ~LessJS(occurrences[i].duration, occurrences[j].duration)

\* C14 as stated: for every statistics bucket, the total duration is the sum
\* of its occurrences' durations, the average is the total by the count, and the
\* least and the greatest duration are those of its occurrences, each with the
\* name of the occurrence it came from
C14_BucketDurations_AsStated ==
    waterfall # <<>> =>
        \A i \in 1..Len(waterfall[1].stats.types) :
            /\ waterfall[1].stats.types[i].stat # <<>>
            /\ StatAgrees(waterfall[1].stats.types[i].stat[1],
                          OfType(Occurrences(waterfall[1].rows.list),
                                 waterfall[1].stats.types[i].type))

\* ----------------------------------------------------------------- the rows

\* C15 as stated: the rows getGui returns are a list, whatever the call log
\* holds: the empty list when no span was closed
C15_RowsAreAList_AsStated ==
    waterfall # <<>> => waterfall[1].rows.defined

\* ------------------------------------------------------------- the stack

\* the n-th call of the log is an end of a well-formed key that is not rooted
\* and has an open span
NonRootedEnd(log, n) ==
    /\ log[n].type = "end"
    /\ WellFormed(log[n].profileKey)
    /\ ~ProfileKey(Trim(log[n].profileKey)).root
    /\ LastOpen(OpenList(log, n - 1), Canonical(log[n].profileKey)) > 0

\* the place in the stack of the span the n-th call closes: the root profile
\* is at place 1, below the open spans
ClosedPlace(log, n) ==
    LastOpen(OpenList(log, n - 1), Canonical(log[n].profileKey)) + 1

\* the deepest profile of the stack's place p has a child array for the first
\* segment of the key
Received(stack, p, k) ==
    ChildIndex(Deepest(stack[p].profile, Len(stack[p].profileKey.profiles)).children,
               Segments(k)[1]) # 0

\* from the stack before to the stack after, the profile at place i left the
\* stack, the profile then at place p took a span of the key, and every other
\* profile stayed as it was
MergedInto(before, after, i, p, k) ==
    /\ Len(after) = Len(before) - 1
    /\ Received(after, p, k)
    /\ \A j \in 1..Len(after) : j # p => after[j] = Without(before, i)[j]

\* from the reconciler st, which has taken the first n calls of the log, every
\* later end that closes a span of a key that is not rooted merges it into the
\* profile at the top of the stack
RECURSIVE EachMergedIntoTop(_, _, _)
EachMergedIntoTop(st, log, n) ==
    n < Len(log) =>
        /\ NonRootedEnd(log, n + 1) =>
              MergedInto(st.stack, ProcessCall(st, log[n + 1]).stack,
                         ClosedPlace(log, n + 1), Len(st.stack) - 1,
                         log[n + 1].profileKey)
        /\ EachMergedIntoTop(ProcessCall(st, log[n + 1]), log, n + 1)

\* the same, the span merged into the profile that was next below it
RECURSIVE EachMergedBelow(_, _, _)
EachMergedBelow(st, log, n) ==
    n < Len(log) =>
        /\ NonRootedEnd(log, n + 1) =>
              MergedInto(st.stack, ProcessCall(st, log[n + 1]).stack,
                         ClosedPlace(log, n + 1), ClosedPlace(log, n + 1) - 1,
                         log[n + 1].profileKey)
        /\ EachMergedBelow(ProcessCall(st, log[n + 1]), log, n + 1)

\* C16 as stated: when an end closes an open span of a key that is not rooted,
\* the span leaves the stack and is merged into the profile that is at the top
\* of the stack after the removal
C16_MergedIntoTop_AsStated ==
    waterfall # <<>> => EachMergedIntoTop(InitialReconciler, calls, 0)

\* C16: when an end closes an open span of a key that is not rooted, the span
\* leaves the stack and is merged into the profile that was next below it on
\* the stack (the root profile when it was the lowest open span), whatever
\* spans are above it; every other profile of the stack stays as it was
C16_MergedBelow ==
    waterfall # <<>> => EachMergedBelow(InitialReconciler, calls, 0)

\* an end closed a span that was neither the top nor the lowest open span of
\* the stack
C16_ClosedBetween ==
    /\ waterfall # <<>>
    /\ \E n \in 1..Len(calls) :
          /\ NonRootedEnd(calls, n)
          /\ ClosedPlace(calls, n) > 2
          /\ ClosedPlace(calls, n) < Len(OpenList(calls, n - 1)) + 1

\* ------------------------------------------------------------ row times

\* the row's interval contains the interval of each of its child rows, and so
\* for each child row and its own child rows
RECURSIVE ContainsDetails(_)
ContainsDetails(rows) ==
    \A i \in 1..Len(rows) :
        /\ \A j \in 1..Len(rows[i].details.list) :
              /\ ~LessJS(rows[i].details.list[j].startTime, rows[i].startTime)
              /\ ~LessJS(rows[i].endTime, rows[i].details.list[j].endTime)
        /\ ContainsDetails(rows[i].details.list)

\* C17 as stated, in the consequence it names: in the finalized output every
\* row starts no later than each of its child rows and ends no earlier, its
\* start time being the least and its end time the greatest of its own times,
\* its duration buckets' and its child rows'
C17_RowContainsChildren_AsStated ==
    waterfall # <<>> => ContainsDetails(waterfall[1].rows.list)

\* ------------------------------------------------------ spans of one segment

\* the time of the start that the end at place j of the log closes, the
\* callers ending what they started before they start it again
StartOf(log, j) ==
    log[CHOOSE i \in 1..(j - 1) :
            /\ log[i].type = "start" /\ log[i].profileKey = log[j].profileKey
            /\ \A m \in (i + 1)..(j - 1) : log[m].profileKey # log[j].profileKey].time

\* one of the profiles ran from the one time to the other
HasSpan(nodes, from, to) ==
    \E i \in 1..Len(nodes) : nodes[i].startTime = from /\ nodes[i].endTime = to

\* the rooted keys of several segments of this run that begin with the segment
\* of the key x
SubKeys(x) ==
    { k \in family.keys :
        /\ WellFormed(k) /\ ~Labelled(k)
        /\ ProfileKey(Trim(k)).root
        /\ Len(Segments(k)) > 1
        /\ Segments(k)[1] = Segments(x)[1] }

\* spans of the keys subs are closed, and only after them at most one span of
\* the key x
SubSpansFirst(log, x, subs) ==
    /\ Cardinality(EndsOf(log, x)) <= 1
    /\ \E k \in subs : EndsOf(log, k) # {}
    /\ \A k \in subs : \A j \in EndsOf(log, k), e \in EndsOf(log, x) : j < e

\* the tree has one profile for the key x under the root; under it are the
\* closed spans of the keys subs, each with its times; and it has the times of
\* the span of x when the log closes one, and no times else
OneNodeWithAll(tree, log, x, subs) ==
    /\ Len(SpansAt(<<tree>>, Segments(x))) = 1
    /\ \A k \in subs :
          /\ Len(SpansAt(<<tree>>, Segments(k))) = Cardinality(EndsOf(log, k))
          /\ \A j \in EndsOf(log, k) :
                HasSpan(SpansAt(<<tree>>, Segments(k)), StartOf(log, j), log[j].time)
    /\ \A e \in EndsOf(log, x) :
          HasSpan(SpansAt(<<tree>>, Segments(x)), StartOf(log, e), log[e].time)
    /\ EndsOf(log, x) = {} => HasSpan(SpansAt(<<tree>>, Segments(x)), Undefined, Undefined)

\* C18: when spans of rooted keys of several segments that share their first
\* segment x are closed before any span of the key x itself is closed, the
\* reconciled tree has exactly one profile x under the root, which holds every
\* one of these spans under it; a span of x closed after them, which has no
\* children of its own, gives that profile its start and end time and makes no
\* second profile x
C18_OneNodePerSegment ==
    waterfall # <<>> =>
        \A x \in family.keys :
            /\ WellFormed(x) /\ ~Labelled(x)
            /\ ProfileKey(Trim(x)).root
            /\ Len(Segments(x)) = 1
            /\ SubSpansFirst(calls, x, SubKeys(x))
            => OneNodeWithAll(ProcessCalls(calls).rootProfile, calls, x, SubKeys(x))

\* spans of two keys under x were closed, and then a span of x
C18_TwoSubSpansThenSpan ==
    /\ waterfall # <<>>
    /\ \E x \in family.keys :
          /\ WellFormed(x) /\ ~Labelled(x)
          /\ ProfileKey(Trim(x)).root
          /\ Len(Segments(x)) = 1
          /\ SubSpansFirst(calls, x, SubKeys(x))
          /\ EndsOf(calls, x) # {}
          /\ \E k1 \in SubKeys(x), k2 \in SubKeys(x) :
                k1 # k2 /\ EndsOf(calls, k1) # {} /\ EndsOf(calls, k2) # {}

\* ------------------------------------------------------- duration buckets

\* the profiles of the chain from the node down its first children, but for
\* the deepest one
RECURSIVE UpperNodes(_, _)
UpperNodes(node, depth) ==
    IF depth <= 1 THEN <<>>
    ELSE <<node>> \o UpperNodes(node.children[1].list[1], depth - 1)

\* C19 as stated: when the log is one start and one end of a key of two or
\* more segments with a duration label, the reconciled tree holds the chain of
\* the key's segments, whose deepest profile has the one bucket of that label
\* with the times of the pair, and no other profile of the chain has a bucket
C19_DeepestBucketOnly_AsStated ==
    waterfall # <<>> =>
        \A k \in family.keys :
            /\ WellFormed(k)
            /\ Len(calls) = 2
            /\ calls[1].type = "start" /\ calls[1].profileKey = k
            /\ calls[2].type = "end" /\ calls[2].profileKey = k
            /\ Labelled(k) /\ Len(Segments(k)) > 1
            => /\ Len(SpansAt(<<ProcessCalls(calls).rootProfile>>, Segments(k))) = 1
               /\ \A i \in 1..Len(SpansAt(<<ProcessCalls(calls).rootProfile>>, Segments(k))) :
                     SpansAt(<<ProcessCalls(calls).rootProfile>>, Segments(k))[i].durations
                       = << Bucket(k, calls[1].time, calls[2].time) >>
               /\ \A i \in 1..Len(SpansAt(<<ProcessCalls(calls).rootProfile>>,
                                          <<Segments(k)[1]>>)) :
                     \A j \in 1..(Len(Segments(k)) - 1) :
                         UpperNodes(SpansAt(<<ProcessCalls(calls).rootProfile>>,
                                            <<Segments(k)[1]>>)[i],
                                    Len(Segments(k)))[j].durations = <<>>

\* the tree holds one profile for the key, whose only bucket is that of the
\* key's label with the times of the calls at the places i and j of the log
OneBucketOf(tree, log, k, i, j) ==
    /\ Len(SpansAt(<<tree>>, Segments(k))) = 1
    /\ \A s \in 1..Len(SpansAt(<<tree>>, Segments(k))) :
          SpansAt(<<tree>>, Segments(k))[s].durations
            = << Bucket(k, log[i].time, log[j].time) >>

\* C20 as stated: when a key of one segment with a duration label is started
\* and ended N times in a row, the pairs merge into one profile whose bucket
\* for the label holds the start and end time of the latest pair
C20_LaterPairOverwrites_AsStated ==
    waterfall # <<>> =>
        \A k \in family.keys, n \in 2..Len(calls) :
            WellFormed(k) /\ Alternating(calls, k, n)
            /\ Labelled(k) /\ Len(Segments(k)) = 1
            => OneBucketOf(rootProfile[1], calls, k, 2 * n - 1, 2 * n)

\* C20: when a key of one segment with a duration label is started and ended
\* N times in a row, the pairs merge into one profile whose bucket for the
\* label holds the start and end time of the first pair: the bucket of a later
\* pair with the same label is left out
C20_FirstPairStays ==
    waterfall # <<>> =>
        \A k \in family.keys, n \in 2..Len(calls) :
            WellFormed(k) /\ Alternating(calls, k, n)
            /\ Labelled(k) /\ Len(Segments(k)) = 1
            => OneBucketOf(rootProfile[1], calls, k, 1, 2)

\* two pairs of a key with a label, the second pair later than the first
C20_TwoPairsOfOneLabel ==
    /\ waterfall # <<>>
    /\ \E k \in family.keys :
          /\ WellFormed(k) /\ Alternating(calls, k, 2)
          /\ Labelled(k) /\ Len(Segments(k)) = 1
          /\ calls[1].time < calls[3].time
          /\ calls[2].time < calls[4].time

\* ------------------------------------------------------------------ events

\* the log without its event calls
RECURSIVE WithoutEvents(_)
WithoutEvents(log) ==
    IF log = <<>> THEN <<>>
    ELSE (IF Head(log).type = "event" THEN <<>> ELSE <<Head(log)>>)
         \o WithoutEvents(Tail(log))

\* the event calls of the log
RECURSIVE EventsOf(_)
EventsOf(log) ==
    IF log = <<>> THEN <<>>
    ELSE (IF Head(log).type = "event" THEN <<Head(log)>> ELSE <<>>)
         \o EventsOf(Tail(log))

\* reconciling the log leaves the stack and the tree that reconciling the log
\* without its event calls leaves
SameSpans(log) ==
    /\ ProcessPrefix(log, Len(log)).stack
         = ProcessPrefix(WithoutEvents(log), Len(WithoutEvents(log))).stack
    /\ ProcessCalls(log).rootProfile = ProcessCalls(WithoutEvents(log)).rootProfile

\* the events are those of the event calls of the log, one for each call, in
\* the order of the calls, each with the time of its call as the function
\* relative gives it
EventsInOrder(evs, log, abs) ==
    /\ Len(evs) = Len(EventsOf(log))
    /\ \A i \in 1..Len(evs) : evs[i].time = Normalize(EventsOf(log)[i].time, abs)

\* C21 as stated: the event calls of a log change neither the stack nor the
\* tree the reconciler makes of it, and the events getGui returns are the event
\* calls of the log, each once, in call order, each with the time of its call
\* (taken from the time of the first start or event call, as every time
\* getGui returns)
C21_EventsApart_AsStated ==
    waterfall # <<>> =>
        /\ SameSpans(calls)
        /\ EventsInOrder(waterfall[1].events, calls, absoluteStartTime)

\* ------------------------------------------------------- order of the rows

\* the rows of one list start one after the other: no row starts before a row
\* that precedes it in the list
StartsAscend(rows) ==
    \A i, j \in 1..Len(rows) :
        i < j => /\ IsNum(rows[i].startTime) /\ IsNum(rows[j].startTime)
                 /\ rows[i].startTime <= rows[j].startTime

\* every list of sibling rows from rows down starts one after the other
RECURSIVE AllStartsAscend(_)
AllStartsAscend(rows) ==
    /\ StartsAscend(rows)
    /\ \A i \in 1..Len(rows) : AllStartsAscend(rows[i].details.list)

\* the rows createRows makes of the reconciled tree of the log, in the order
\* in which the spans were merged
MergedRows(log, abs) == CreateRows(ProcessCalls(log).rootProfile, abs).row.details.list

FilterOf(t) ==
    ExecuteExpression(config.statsFilter, [Name |-> t.type, Calls |-> Len(t.values)])

\* the property names of the stats object getGui returns, but totalDuration
StatsKeys(stats) == { stats.types[i].type : i \in 1..Len(stats.types) }

\* the bucket is in the stats with its statistics, and has its row in the table
PresentWithStats(stats, t) ==
    /\ t.stat # <<>>
    /\ t.stat[1].Name = t.type
    /\ t.stat[1].Calls = Len(t.values)
    /\ \E r \in 1..Len(SummaryTable(stats.types)) :
          SummaryTable(stats.types)[r] = [Name |-> t.type, Calls |-> Len(t.values)]

\* the bucket is in the stats under no name, and the table has no row for it:
\* every row of the table is the row of a bucket the filter is not false of
Excluded(stats, t) ==
    /\ t.type \notin StatsKeys(stats)
    /\ Len(SummaryTable(stats.types))
         = Cardinality({ i \in 1..Len(stats.types) : FilterOf(stats.types[i]) # "false" })

\* C23 as stated: a bucket of which the configured statsFilter evaluates to
\* false is neither in the stats getGui returns nor in the table of getSummary;
\* a bucket of which the filter is true, does not evaluate or is not configured
\* is there with its statistics
C23_FilteredBucketExcluded_AsStated ==
    waterfall # <<>> =>
        \A i \in 1..Len(waterfall[1].stats.types) :
            IF FilterOf(waterfall[1].stats.types[i]) = "false"
            THEN Excluded(waterfall[1].stats, waterfall[1].stats.types[i])
            ELSE FilterOf(waterfall[1].stats.types[i]) \in {"true", "null"}
                    => PresentWithStats(waterfall[1].stats, waterfall[1].stats.types[i])

\* ------------------------------------------------------------ accepted keys

\* the validity check of the reconciler (lines 661-665) lets the key through
Accepted(key) == Trim(key) # <<>> /\ PROFILE_KEY_REGEX(Trim(key))

\* the segment is not empty, is trimmed, and has no '/' and no ':'
CleanSegment(seg) ==
    /\ seg # <<>>
    /\ Trim(seg) = seg
    /\ \A j \in 1..Len(seg) : SegChar(seg[j])

\* the segments of the parsed key are clean, and its duration label is the
\* trimmed text after the ':' of the key
ParsesClean(key, pk) ==
    /\ pk.profiles # <<>>
    /\ \A i \in 1..Len(pk.profiles) : CleanSegment(pk.profiles[i])
    /\ pk.duration = IF Contains(key, ":") THEN Trim(Split(key, ":")[2]) ELSE <<>>

\* C24 as stated: every key of the log that the validity check accepts parses
\* into segments that are not empty, trimmed and free of '/' and ':', the text
\* after the ':' being the duration label; and so every profile of the
\* reconciled tree has an id that is not empty
C24_AcceptedKeysParse_AsStated ==
    /\ \A i \in 1..Len(calls) :
          calls[i].type # "event" /\ Accepted(calls[i].profileKey)
             => ParsesClean(Trim(calls[i].profileKey), ProfileKey(Trim(calls[i].profileKey)))
    /\ \A n \in 1..Len(NodesIn(ProcessCalls(calls).rootProfile.children)) :
          NodesIn(ProcessCalls(calls).rootProfile.children)[n].id # <<>>

\* ------------------------------------------------------- spans kept by add

\* the end at place j of the log closes a span of a key without a label that
\* is merged into an open span: it is not the lowest open span of the stack
NestedClosed(log, j) ==
    /\ NonRootedEnd(log, j)
    /\ ~Labelled(log[j].profileKey)
    /\ ClosedPlace(log, j) > 2

\* every span the log starts it also ends
AllClosed(log) == OpenList(log, Len(log)) = <<>>

\* the tree has a profile of the last segment of the key of the end at place j
\* of the log, with the times of the span that end closes
KeptSpan(tree, log, j) ==
    HasSpan(WithId(NodesIn(tree.children), LastSegment(log[j].profileKey)),
            StartOf(log, j), log[j].time)

\* C25 as stated: no closed span is dropped by a merge. When every span of the
\* log is closed, so that each closed span was merged into the root or into a
\* span that closed later, every span that closed under an open span is in the
\* reconciled tree with its times, whatever branch of add merged the spans
\* above it
C25_NoSpanDropped_AsStated ==
    waterfall # <<>> /\ AllClosed(calls) =>
        \A j \in 1..Len(calls) :
            NestedClosed(calls, j) => KeptSpan(ProcessCalls(calls).rootProfile, calls, j)

\* ------------------------------------------------------- times from zero

\* every row from rows down starts at zero or later and ends no earlier than
\* it starts
RECURSIVE RowsFromZero(_)
RowsFromZero(rows) ==
    \A i \in 1..Len(rows) :
        /\ IsNum(rows[i].startTime) /\ IsNum(rows[i].endTime)
        /\ 0 <= rows[i].startTime /\ rows[i].startTime <= rows[i].endTime
        /\ RowsFromZero(rows[i].details.list)

\* every event is at zero or later
EventsFromZero(evs) ==
    \A i \in 1..Len(evs) : IsNum(evs[i].time) /\ 0 <= evs[i].time

\* C26 as stated: in what getGui returns of a log recorded with a clock that
\* never goes back, every row has 0 <= startTime <= endTime and every event a
\* time >= 0, the times being taken from the time of the first start or event
\* call of the log
C26_TimesFromZero_AsStated ==
    waterfall # <<>> =>
        /\ RowsFromZero(waterfall[1].rows.list)
        /\ EventsFromZero(waterfall[1].events)

\* ------------------------------------------------------------ declared type

\* the type the data of the calls declare: that of the last call that has one
RECURSIVE DeclaredType(_)
DeclaredType(log) ==
    IF log = <<>> THEN <<>>
    ELSE IF log[Len(log)].data.type # <<>> THEN log[Len(log)].data.type
    ELSE DeclaredType(SubSeq(log, 1, Len(log) - 1))

\* the profiles of the chain of the key but the deepest one have the type,
\* and the Name createRows gives them, of their own segment of the key
UpperKeepNames(tree, k) ==
    \A i \in 1..Len(SpansAt(<<tree>>, <<Segments(k)[1]>>)) :
        \A j \in 1..(Len(Segments(k)) - 1) :
            /\ UpperNodes(SpansAt(<<tree>>, <<Segments(k)[1]>>)[i],
                          Len(Segments(k)))[j].type = Segments(k)[j]
            /\ UpperNodes(SpansAt(<<tree>>, <<Segments(k)[1]>>)[i],
                          Len(Segments(k)))[j].data.Name = Segments(k)[j]

\* the deepest profile of the chain of the key carries the type
DeepestTyped(tree, k, type) ==
    /\ Len(SpansAt(<<tree>>, Segments(k))) = 1
    /\ SpansAt(<<tree>>, Segments(k))[1].data.type = type

\* C27 as stated: when a key of several segments is started and ended with
\* data that declares a type, the declared type becomes the type of the
\* deepest profile of the chain only: every other profile of the chain keeps
\* the type, and the row Name, of its own segment
C27_DeepestTypeOnly_AsStated ==
    waterfall # <<>> =>
        \A k \in family.keys :
            WellFormed(k) /\ ~Labelled(k) /\ Len(Segments(k)) > 1
            /\ Alternating(calls, k, 1) /\ DeclaredType(calls) # <<>>
            => /\ DeepestTyped(rootProfile[1], k, DeclaredType(calls))
               /\ UpperKeepNames(rootProfile[1], k)

\* ------------------------------------------------------- controller span

\* the error finalization logs for a span of the key that was never ended
LeftOpenError(key) == ErrorEntry("End was never called.", key)

\* C28 as stated: when the controller of a command has reported failure
\* through the error method of its action context, the waterfall taking the
\* call, the span '/<name>/Controller' that the dispatcher started for the
\* command is ended: finalization does not find it unterminated
C28_ErrorEndsController_AsStated ==
    waterfall # <<>> =>
        \A name \in DOMAIN ac :
            ac[name].state = "failed" /\ ac[name].recorded
            => LeftOpenError(SpanKey(name, "Controller")) \notin errors

====
